---- MODULE Spec2Model ----
(***************************************************************************)
(* Model of the tracking / identity / event pipeline of the video          *)
(* analytics repository:                                                   *)
(*   - BoTSORTTracker            (local_script/tracking/tracker.py)        *)
(*   - VideoAnalyticsSystem      (local_script/main.py)                    *)
(*   - the detect.py main loop   (detect.py)                               *)
(*   - the registry cache        (backend/services/face_service.py and     *)
(*                                backend/routes/faces.py)                 *)
(*   - VideoProcessor and CameraManager                                    *)
(*                               (backend/services/video_processor.py)     *)
(*   - APIClient.find_matching_person, as the local script calls it        *)
(*                               (local_script/utils/api_client.py)        *)
(*   - ConnectionManager         (backend/routes/websocket.py)             *)
(* Python lists are 0-based, the sequences below are 1-based; an index i   *)
(* of the source is index i+1 here.                                        *)
(***************************************************************************)
EXTENDS Integers, Sequences, FiniteSets, TLC

VARIABLES
    program,        \* which program of the repository this run executes
    tracker,        \* a BoTSORTTracker object (tracker.py), driven on its own
    call,           \* what the last BoTSORTTracker.update call did and returned
    person_tracker, \* main.py: VideoAnalyticsSystem.person_tracker
    phone_tracker,  \* main.py: VideoAnalyticsSystem.phone_tracker
    tracked_persons, \* main.py: VideoAnalyticsSystem.tracked_persons
    tracked_phones, \* main.py: VideoAnalyticsSystem.tracked_phones
    frame_count,    \* main.py: VideoAnalyticsSystem.frame_count
    backend,        \* main.py: the matching service behind APIClient, as the
                    \* local script finds it
    timestamp,      \* detect.py: time.time() of the frame last read, in seconds
    person_map,     \* detect.py: TrackerState.person_map
    known_embeddings, \* detect.py: TrackerState.known_embeddings
    known_names,    \* detect.py: TrackerState.known_names
    events,         \* the events logged while handling the last frame
    history,        \* per person track id, what was logged since the per-track
                    \* state of that id was created
    scene,          \* what the camera and the detectors deliver for a frame
    args,           \* the arguments of a function that is called on its own
    result,         \* what that call returned; done is FALSE before the call
    registry,       \* backend: the names in the registered_persons table
    commits,        \* backend: how many writes to that table were committed
    _face_embeddings_cache, \* face_service.py: the module's cache, or None
    _cache_timestamp, \* face_service.py: when the cache was loaded
    clock,          \* backend: time.time(), in seconds
    requests,       \* backend: the requests being served, one per worker
    invalidated,    \* backend: the last write whose invalidation has returned
    video_processor, \* video_processor.py: the one VideoProcessor and its fields
    active_streams, \* CameraManager.active_streams, the camera ids in it
    streams,        \* the stream thread of each camera: its position and locals
    reloader,       \* the thread that runs reload_persons
    utcnow,         \* datetime.utcnow(), in seconds
    manager,        \* websocket.py: the one ConnectionManager
    websockets,     \* websocket.py: each websocket and its websocket_endpoint
    broadcasts,     \* websocket.py: the calls of ConnectionManager.broadcast
    loop            \* a frame loop run as a whole: whether it is still running,
                    \* and which events of its last frame reached the sink

trackerVars == <<tracker, call>>
systemVars == <<person_tracker, phone_tracker, tracked_persons, tracked_phones, frame_count,
                backend>>
detectVars == <<timestamp, person_map, known_embeddings, known_names>>
logVars == <<events, history, scene>>
callVars == <<args, result>>
serverVars == <<registry, commits, _face_embeddings_cache, _cache_timestamp, clock,
                requests, invalidated>>
cameraVars == <<video_processor, active_streams, streams, reloader, utcnow>>
websocketVars == <<manager, websockets, broadcasts>>
serviceVars == <<serverVars, cameraVars, websocketVars, loop>>
vars == <<program, trackerVars, systemVars, detectVars, logVars, callVars, serviceVars>>

(***************************************************************************)
(* Bounds of the tracker model.                                            *)
(***************************************************************************)
MaxDets == 2        \* detections per frame
MaxFrames == 4      \* update calls per run of the tracker on its own

(***************************************************************************)
(* Boxes (x1, y1, x2, y2) with integer corners, as the detectors return    *)
(* them (person_detector.py: map(int, box.xyxy[0])).                       *)
(*   BoxA/BoxB overlap with IoU 8/24, BoxA/BoxC with IoU 4/28,             *)
(*   BoxB/BoxC with IoU 12/20, BoxZ has no area and overlaps nothing.      *)
(***************************************************************************)
BoxA == <<0, 0, 4, 4>>
BoxB == <<2, 0, 6, 4>>
BoxC == <<3, 0, 7, 4>>
BoxZ == <<9, 9, 9, 9>>
TrackerBoxes == {BoxA, BoxB}

\* a detection is (x1, y1, x2, y2, confidence); the confidence is in tenths
Detection(box) == box \o <<9>>

RECURSIVE SeqsUpTo(_, _)
SeqsUpTo(S, n) ==
    IF n = 0 THEN {<<>>}
    ELSE LET shorter == SeqsUpTo(S, n - 1)
         IN  shorter \cup {Append(s, x) : s \in {t \in shorter : Len(t) = n - 1}, x \in S}

DetectionLists(boxes, n) == SeqsUpTo({Detection(b) : b \in boxes}, n)

Max2(a, b) == IF a >= b THEN a ELSE b
Min2(a, b) == IF a <= b THEN a ELSE b

\* the keys of a dict in insertion order; track ids are inserted in
\* increasing order and never re-inserted, so this is the ascending order
RECURSIVE SortedSeq(_)
SortedSeq(S) ==
    IF S = {} THEN <<>>
    ELSE LET m == CHOOSE x \in S : \A y \in S : x <= y
         IN  <<m>> \o SortedSeq(S \ {m})

SeqToSet(s) == {s[i] : i \in 1..Len(s)}

RemoveFirst(s, x) ==
    LET k == CHOOSE i \in 1..Len(s) : s[i] = x /\ \A j \in 1..(i - 1) : s[j] # x
    IN  SubSeq(s, 1, k - 1) \o SubSeq(s, k + 1, Len(s))

(***************************************************************************)
(* IoU.  A ratio is kept exact as <<numerator, denominator>>; the source   *)
(* divides two integers in floating point, which orders ratios the same    *)
(* way for operands of this size.                                          *)
(***************************************************************************)
RatioGT(a, b) == a[1] * b[2] > b[1] * a[2]
RatioLT(a, b) == a[1] * b[2] < b[1] * a[2]
RatioGE(a, b) == ~RatioLT(a, b)

box_area(box) == (box[3] - box[1]) * (box[4] - box[2])

\* one cell of the matrix computed by _iou_batch
iou(box_a, box_b) ==
    LET xx1 == Max2(box_a[1], box_b[1])
        yy1 == Max2(box_a[2], box_b[2])
        xx2 == Min2(box_a[3], box_b[3])
        yy2 == Min2(box_a[4], box_b[4])
        w == Max2(0, xx2 - xx1)
        h == Max2(0, yy2 - yy1)
        intersection == w * h
        union == box_area(box_a) + box_area(box_b) - intersection
    IN  IF union > 0 THEN <<intersection, union>> ELSE <<0, 1>>

_iou_batch(boxes_a, boxes_b) ==
    [i \in 1..Len(boxes_a) |-> [j \in 1..Len(boxes_b) |-> iou(boxes_a[i], boxes_b[j])]]


(***************************************************************************)
(* BoTSORTTracker                                                          *)
(***************************************************************************)
\* __init__: the object right after construction
BoTSORTTracker(max_age, min_hits, iou_threshold) ==
    [max_age |-> max_age, min_hits |-> min_hits, iou_threshold |-> iou_threshold,
     tracks |-> <<>>, next_id |-> 1, frame_count |-> 0]

Indices(n) == [k \in 1..n |-> k]

\* the two nested for loops of _match that look for the maximum IoU;
\* max_det = 0 / max_track = 0 stand for the source's initial -1
RECURSIVE ScanTracks_LastWins(_, _, _, _, _)
ScanTracks_LastWins(iou_matrix, i, unmatched_tracks, q, best) ==
    IF q > Len(unmatched_tracks) THEN best
    ELSE LET j == unmatched_tracks[q]
         IN  ScanTracks_LastWins(iou_matrix, i, unmatched_tracks, q + 1,
                 IF RatioGE(iou_matrix[i][j], best.max_iou) /\ iou_matrix[i][j][1] > 0
                 THEN [max_iou |-> iou_matrix[i][j], max_det |-> i, max_track |-> j]
                 ELSE best)

RECURSIVE ScanTracks(_, _, _, _, _)
ScanTracks(iou_matrix, i, unmatched_tracks, q, best) ==
    IF q > Len(unmatched_tracks) THEN best
    ELSE LET j == unmatched_tracks[q]
         IN  ScanTracks(iou_matrix, i, unmatched_tracks, q + 1,
                 IF RatioGT(iou_matrix[i][j], best.max_iou)
                 THEN [max_iou |-> iou_matrix[i][j], max_det |-> i, max_track |-> j]
                 ELSE best)

RECURSIVE ScanDets(_, _, _, _, _)
ScanDets(iou_matrix, unmatched_dets, unmatched_tracks, p, best) ==
    IF p > Len(unmatched_dets) THEN best
    ELSE ScanDets(iou_matrix, unmatched_dets, unmatched_tracks, p + 1,
             ScanTracks(iou_matrix, unmatched_dets[p], unmatched_tracks, 1, best))

FindMaxIoU(iou_matrix, unmatched_dets, unmatched_tracks) ==
    ScanDets(iou_matrix, unmatched_dets, unmatched_tracks, 1,
             [max_iou |-> <<0, 1>>, max_det |-> 0, max_track |-> 0])

\* the while loop of _match; raised = list.remove(-1) threw ValueError
RECURSIVE MatchLoop(_, _, _, _, _)
MatchLoop(self, iou_matrix, matches, unmatched_dets, unmatched_tracks) ==
    LET stop == [matches |-> matches, unmatched_dets |-> unmatched_dets,
                 unmatched_tracks |-> unmatched_tracks, raised |-> FALSE]
    IN  IF Len(unmatched_dets) > 0 /\ Len(unmatched_tracks) > 0
        THEN LET best == FindMaxIoU(iou_matrix, unmatched_dets, unmatched_tracks)
             IN  IF RatioLT(best.max_iou, self.iou_threshold) THEN stop
                 ELSE IF best.max_det = 0 THEN [stop EXCEPT !.raised = TRUE]
                 ELSE MatchLoop(self, iou_matrix,
                                Append(matches, <<best.max_det, best.max_track>>),
                                RemoveFirst(unmatched_dets, best.max_det),
                                RemoveFirst(unmatched_tracks, best.max_track))
        ELSE stop

_match_NoneLeftOver(self, detections, tracks) ==
    IF Len(detections) = 0 \/ Len(tracks) = 0
    THEN [matches |-> <<>>, unmatched_dets |-> Indices(Len(detections)),
          unmatched_tracks |-> <<>>, raised |-> FALSE]
    ELSE MatchLoop(self, _iou_batch(detections, tracks), <<>>,
                   Indices(Len(detections)), Indices(Len(tracks)))

_match(self, detections, tracks) ==
    IF Len(detections) = 0
    THEN [matches |-> <<>>, unmatched_dets |-> <<>>,
          unmatched_tracks |-> Indices(Len(tracks)), raised |-> FALSE]
    ELSE IF Len(tracks) = 0
    THEN [matches |-> <<>>, unmatched_dets |-> Indices(Len(detections)),
          unmatched_tracks |-> <<>>, raised |-> FALSE]
    ELSE MatchLoop(self, _iou_batch(detections, tracks), <<>>,
                   Indices(Len(detections)), Indices(Len(tracks)))

UpdateMatched_KeepAge(tracks, track_ids, det_boxes, matches) ==
    [tid \in DOMAIN tracks |->
        IF \E k \in 1..Len(matches) : track_ids[matches[k][2]] = tid
        THEN LET k == CHOOSE k \in 1..Len(matches) : track_ids[matches[k][2]] = tid
             IN  [tracks[tid] EXCEPT !.bbox = det_boxes[matches[k][1]],
                                     !.hits = @ + 1]
        ELSE tracks[tid]]

\* "Update matched tracks"
UpdateMatched(tracks, track_ids, det_boxes, matches) ==
    [tid \in DOMAIN tracks |->
        IF \E k \in 1..Len(matches) : track_ids[matches[k][2]] = tid
        THEN LET k == CHOOSE k \in 1..Len(matches) : track_ids[matches[k][2]] = tid
             IN  [tracks[tid] EXCEPT !.bbox = det_boxes[matches[k][1]],
                                     !.hits = @ + 1,
                                     !.age = 0]
        ELSE tracks[tid]]

\* "Create new tracks for unmatched detections"
CreateTracks(tracks, next_id, det_boxes, unmatched_dets) ==
    [tid \in DOMAIN tracks \cup {next_id + k - 1 : k \in 1..Len(unmatched_dets)} |->
        IF tid \in DOMAIN tracks THEN tracks[tid]
        ELSE [bbox |-> det_boxes[unmatched_dets[tid - next_id + 1]],
              hits |-> 1, age |-> 0, id |-> tid]]

NextIdAfter_Once(next_id, unmatched_dets) ==
    IF Len(unmatched_dets) > 0 THEN next_id + 1 ELSE next_id

\* self.next_id += 1, once per created track
NextIdAfter(next_id, unmatched_dets) == next_id + Len(unmatched_dets)

\* "Update age of unmatched tracks"
AgeUnmatched(tracks, track_ids, unmatched_tracks) ==
    [tid \in DOMAIN tracks |->
        IF \E k \in 1..Len(unmatched_tracks) : track_ids[unmatched_tracks[k]] = tid
        THEN [tracks[tid] EXCEPT !.age = @ + 1]
        ELSE tracks[tid]]

ToRemove_AtMaxAge(self, tracks) == {tid \in DOMAIN tracks : tracks[tid].age >= self.max_age}

\* "Remove old tracks"
ToRemove(self, tracks) == {tid \in DOMAIN tracks : tracks[tid].age > self.max_age}

RemoveOld(self, tracks) ==
    [tid \in DOMAIN tracks \ ToRemove(self, tracks) |-> tracks[tid]]

ActiveTracks_ExactHits(self, tracks) ==
    [tid \in {t \in DOMAIN tracks : tracks[t].hits = self.min_hits} |-> tracks[tid].bbox]

ActiveTracks_All(self, tracks) == [tid \in DOMAIN tracks |-> tracks[tid].bbox]

\* "Return active tracks"; the boxes are integers, which int() keeps
ActiveTracks(self, tracks) ==
    [tid \in {t \in DOMAIN tracks : tracks[t].hits >= self.min_hits} |-> tracks[tid].bbox]

\* BoTSORTTracker.update: the object after the call, the returned mapping
\* and what the call did
update(self, detections) ==
    LET det_boxes == [k \in 1..Len(detections) |-> SubSeq(detections[k], 1, 4)]
        track_ids == SortedSeq(DOMAIN self.tracks)
        track_boxes == [k \in 1..Len(track_ids) |-> self.tracks[track_ids[k]].bbox]
        m == _match(self, det_boxes, track_boxes)
        t1 == UpdateMatched(self.tracks, track_ids, det_boxes, m.matches)
        t2 == CreateTracks(t1, self.next_id, det_boxes, m.unmatched_dets)
        t3 == AgeUnmatched(t2, track_ids, m.unmatched_tracks)
        t4 == RemoveOld(self, t3)
    IN  IF m.raised
        THEN [self |-> [self EXCEPT !.frame_count = @ + 1],
              raised |-> TRUE, ret |-> <<>>, detections |-> detections,
              matched |-> {}, created |-> {}, removed |-> {}]
        ELSE [self |-> [self EXCEPT !.frame_count = @ + 1,
                                    !.tracks = t4,
                                    !.next_id = NextIdAfter(@, m.unmatched_dets)],
              raised |-> FALSE,
              ret |-> ActiveTracks(self, t4),
              detections |-> detections,
              matched |-> {track_ids[m.matches[k][2]] : k \in 1..Len(m.matches)},
              created |-> DOMAIN t2 \ DOMAIN t1,
              removed |-> ToRemove(self, t3)]

\* what is remembered of the last update call: its argument, what it did and
\* returned, what the call before it returned and whether that call had the
\* same argument
NoCall ==
    [raised |-> FALSE, ret |-> <<>>, detections |-> <<>>,
     matched |-> {}, created |-> {}, removed |-> {}, before |-> <<>>,
     repeated |-> FALSE]

\* Python's None where the other values are records.
None == [is_none |-> TRUE]

\* the variables of a program that this run does not execute
TrackerIdle == tracker = BoTSORTTracker(0, 0, <<0, 1>>) /\ call = NoCall

SystemIdle ==
    /\ person_tracker = BoTSORTTracker(0, 0, <<0, 1>>)
    /\ phone_tracker = BoTSORTTracker(0, 0, <<0, 1>>)
    /\ tracked_persons = <<>>
    /\ tracked_phones = <<>>
    /\ frame_count = 0
    /\ backend = None

DetectIdle ==
    /\ timestamp = 0
    /\ person_map = <<>>
    /\ known_embeddings = <<>>
    /\ known_names = <<>>

LogIdle == events = {} /\ history = <<>> /\ scene = <<>>

Pending == [done |-> FALSE]
Returned(value) == [done |-> TRUE, value |-> value]

CallIdle == args = <<>> /\ result = Pending

ServerIdle ==
    /\ registry = {}
    /\ commits = 0
    /\ _face_embeddings_cache = None
    /\ _cache_timestamp = 0
    /\ clock = 0
    /\ requests = <<>>
    /\ invalidated = 0

CameraIdle ==
    /\ video_processor = None
    /\ active_streams = {}
    /\ streams = <<>>
    /\ reloader = None
    /\ utcnow = 0

WebsocketIdle == manager = None /\ websockets = <<>> /\ broadcasts = <<>>

ServicesIdle == ServerIdle /\ CameraIdle /\ WebsocketIdle /\ loop = None

(***************************************************************************)
(* The tracker on its own: any constructor arguments of a small set, then  *)
(* any sequence of update calls.                                           *)
(***************************************************************************)
MaxAges == {1}
MinHitsSet == {1, 2}
IouThresholds == {<<3, 10>>}

InitTracker ==
    /\ program = "tracker"
    /\ SystemIdle /\ DetectIdle /\ LogIdle /\ CallIdle /\ ServicesIdle
    /\ tracker \in {BoTSORTTracker(a, h, t) :
                        a \in MaxAges, h \in MinHitsSet, t \in IouThresholds}
    /\ call = NoCall

TrackerUpdate ==
    /\ program = "tracker"
    /\ tracker.frame_count < MaxFrames
    /\ \E detections \in DetectionLists(TrackerBoxes, MaxDets) :
          LET r == update(tracker, detections)
          IN  /\ tracker' = r.self
              /\ call' = [raised |-> r.raised, ret |-> r.ret, detections |-> r.detections,
                           matched |-> r.matched, created |-> r.created,
                           removed |-> r.removed, before |-> call.ret,
                           repeated |-> tracker.frame_count >= 1
                                            /\ detections = call.detections]
    /\ UNCHANGED <<program, systemVars, detectVars, logVars, callVars, serviceVars>>

NextTracker == TrackerUpdate

SpecTracker == InitTracker /\ [][NextTracker]_vars

(***************************************************************************)
(* BoTSORTTracker._match on its own: any threshold of a small set and any  *)
(* two short lists of boxes.                                               *)
(*   BoxHalf and BoxWide both have IoU 1/2 with BoxA and areas 8 and 32;   *)
(*   BoxFar overlaps none of the others.                                   *)
(***************************************************************************)
MaxMatchLen == 2    \* boxes per list given to _match

BoxHalf == <<0, 0, 2, 4>>
BoxWide == <<0, 0, 8, 4>>
BoxFar == <<10, 10, 14, 14>>
MatchBoxes == {BoxA, BoxHalf, BoxWide, BoxFar}
MatchThresholds == {<<0, 1>>, <<3, 10>>, <<1, 1>>}

InitMatch ==
    /\ program = "_match"
    /\ TrackerIdle /\ SystemIdle /\ DetectIdle /\ LogIdle /\ ServicesIdle
    /\ args \in [iou_threshold : MatchThresholds,
                 detections : SeqsUpTo(MatchBoxes, MaxMatchLen),
                 tracks : SeqsUpTo(MatchBoxes, MaxMatchLen)]
    /\ result = Pending

CallMatch ==
    /\ program = "_match"
    /\ ~result.done
    /\ result' = Returned(_match(BoTSORTTracker(30, 1, args.iou_threshold),
                                 args.detections, args.tracks))
    /\ UNCHANGED <<program, trackerVars, systemVars, detectVars, logVars, args, serviceVars>>

NextMatch == CallMatch

SpecMatch == InitMatch /\ [][NextMatch]_vars

(***************************************************************************)
(* Properties of BoTSORTTracker.update                                     *)
(***************************************************************************)
\* C1: every track id in the mapping returned by update belongs to a track
\* that is in the store and whose hits counter is >= min_hits.
C1_ReturnedHaveMinHits ==
    \A tid \in DOMAIN call.ret :
        /\ tid \in DOMAIN tracker.tracks
        /\ tracker.tracks[tid].hits >= tracker.min_hits

\* update returned some track and held back a stored track with too few hits
C1_Witness ==
    /\ DOMAIN call.ret # {}
    /\ \E tid \in DOMAIN tracker.tracks :
          tid \notin DOMAIN call.ret /\ tracker.tracks[tid].hits < tracker.min_hits

\* C2: in every update call a pre-existing track matched to a detection has
\* age 0 afterwards; a pre-existing track without a matching detection has its
\* age increased by exactly one (and leaves the store only if that age
\* exceeds max_age).
C2_AgeResetOrIncrement ==
    [][\A tid \in DOMAIN tracker.tracks :
          IF tid \in call'.matched
          THEN /\ tid \in DOMAIN tracker'.tracks
               /\ tracker'.tracks[tid].age = 0
          ELSE /\ tid \in DOMAIN tracker'.tracks
                    => tracker'.tracks[tid].age = tracker.tracks[tid].age + 1
               /\ tid \notin DOMAIN tracker'.tracks
                    => tracker.tracks[tid].age + 1 > tracker.max_age]_vars

\* a call matched a track that had aged, while another track aged
C2_Witness ==
    /\ \E tid \in call.matched : tracker.tracks[tid].hits >= 2 /\ tracker.tracks[tid].age = 0
    /\ \E tid \in DOMAIN tracker.tracks : tid \notin call.created /\ tracker.tracks[tid].age >= 1

\* C3: after update no stored track has age > max_age, and a track leaves the
\* store only in the call in which its age goes from max_age to max_age + 1.
C3_PurgeExactlyWhenTooOld ==
    /\ [](\A tid \in DOMAIN tracker.tracks : tracker.tracks[tid].age <= tracker.max_age)
    /\ [][\A tid \in DOMAIN tracker.tracks :
             tid \notin DOMAIN tracker'.tracks
                => /\ tid \notin call'.matched
                   /\ tracker.tracks[tid].age = tracker.max_age]_vars

\* a call removed a track while another track stayed at age max_age
C3_Witness ==
    /\ call.removed # {}
    /\ \E tid \in DOMAIN tracker.tracks : tracker.tracks[tid].age = tracker.max_age

\* C4: the ids of newly created tracks are at least the old next_id, which is
\* above every id handed out so far and never decreases: no id is used twice.
C4_IdsNeverReused ==
    /\ [](\A tid \in DOMAIN tracker.tracks : tid < tracker.next_id)
    /\ [][/\ tracker'.next_id >= tracker.next_id
          /\ \A tid \in DOMAIN tracker'.tracks \ DOMAIN tracker.tracks :
                tid >= tracker.next_id]_vars

\* a track was created after a track with a smaller id had been removed
C4_Witness ==
    /\ call.created # {}
    /\ \E old \in 1..(tracker.next_id - 1) :
          /\ old \notin DOMAIN tracker.tracks
          /\ \A tid \in call.created : old < tid

\* the call that is about to happen repeats the detection list of the call
\* before it
SameDetectionsAgain ==
    /\ program = "tracker"
    /\ tracker.frame_count >= 1
    /\ call'.detections = call.detections
    /\ tracker'.frame_count = tracker.frame_count + 1

\* C11 as claimed: update(D) followed by update(D) with the same D returns
\* the same track-id -> box mapping the second time.
C11_Original ==
    [][SameDetectionsAgain => call'.ret = call.ret]_vars

\* C11 as amended: for detections of positive area, the second of two update
\* calls with the same D returns every track the first call returned after
\* matching or creating it, with the same box; the two mappings differ only
\* by tracks that reach hits = min_hits in the second call (added) and by
\* tracks matched in neither call whose age exceeds max_age in the second
\* call (dropped).
C11_SameUpToHitsAndAge ==
    [][SameDetectionsAgain =>
          /\ call'.created = {}
          /\ \A tid \in DOMAIN call.ret \cap (call.matched \cup call.created) :
                tid \in DOMAIN call'.ret /\ call'.ret[tid] = call.ret[tid]
          /\ \A tid \in DOMAIN call.ret \cap DOMAIN call'.ret :
                call'.ret[tid] = call.ret[tid]
          /\ \A tid \in DOMAIN call'.ret \ DOMAIN call.ret :
                /\ tid \in call'.matched
                /\ tracker'.tracks[tid].hits = tracker.min_hits
          /\ \A tid \in DOMAIN call.ret \ DOMAIN call'.ret :
                /\ tid \notin call.matched \cup call'.matched
                /\ tid \in call'.removed
                /\ tracker.tracks[tid].age = tracker.max_age]_vars

\* the same non-empty detection list was given twice; the second call
\* returned one track with the box it had before and no longer returned
\* another one
C11_Witness ==
    /\ call.repeated
    /\ call.detections # <<>>
    /\ \E tid \in DOMAIN call.ret \cap DOMAIN call.before : call.ret[tid] = call.before[tid]
    /\ DOMAIN call.before \ DOMAIN call.ret # {}

MatchIoU(pair) == iou(args.detections[pair[1]], args.tracks[pair[2]])

RatioEQ(a, b) == a[1] * b[2] = b[1] * a[2]

\* the (detection, track) index pairs still unmatched before step k
RemainingPairs(k) ==
    LET m == result.value.matches
    IN  {<<d, t>> : d \in (1..Len(args.detections)) \ {m[q][1] : q \in 1..(k - 1)},
                    t \in (1..Len(args.tracks)) \ {m[q][2] : q \in 1..(k - 1)}}

\* C12: for every iou_threshold in [0, 1], _match returns a greedy one-to-one
\* matching: step k takes a remaining pair of maximal IoU, the loop stops
\* when that maximum is below the threshold, every pair has IoU >= threshold,
\* and every detection and every track is in exactly one of matches and
\* unmatched.
C12_GreedyMatching ==
    result.done =>
        LET r == result.value
            n == Len(r.matches)
        IN  /\ ~r.raised
            /\ \A k \in 1..n :
                  /\ r.matches[k] \in RemainingPairs(k)
                  /\ RatioGE(MatchIoU(r.matches[k]), args.iou_threshold)
                  /\ \A pair \in RemainingPairs(k) :
                        RatioGE(MatchIoU(r.matches[k]), MatchIoU(pair))
            /\ \A pair \in RemainingPairs(n + 1) :
                  RatioLT(MatchIoU(pair), args.iou_threshold)
            /\ SeqToSet(r.unmatched_dets) =
                  (1..Len(args.detections)) \ {r.matches[q][1] : q \in 1..n}
            /\ SeqToSet(r.unmatched_tracks) =
                  (1..Len(args.tracks)) \ {r.matches[q][2] : q \in 1..n}
            /\ Len(r.unmatched_dets) + n = Len(args.detections)
            /\ Len(r.unmatched_tracks) + n = Len(args.tracks)

\* C13 as claimed: among remaining pairs of the same maximal IoU the matcher
\* takes one whose detection has the largest area.
C13_Original ==
    result.done =>
        \A k \in 1..Len(result.value.matches) :
            \A pair \in RemainingPairs(k) :
                RatioEQ(MatchIoU(pair), MatchIoU(result.value.matches[k]))
                   => box_area(args.detections[result.value.matches[k][1]])
                        >= box_area(args.detections[pair[1]])

\* C13 as amended: among remaining pairs of the same maximal IoU the matcher
\* takes the first in scan order: the lowest detection index and, for that
\* detection, the lowest track index; areas play no part.
C13_FirstInScanOrder ==
    result.done =>
        \A k \in 1..Len(result.value.matches) :
            \A pair \in RemainingPairs(k) :
                RatioEQ(MatchIoU(pair), MatchIoU(result.value.matches[k]))
                   => \/ result.value.matches[k][1] < pair[1]
                      \/ /\ result.value.matches[k][1] = pair[1]
                         /\ result.value.matches[k][2] <= pair[2]

\* two detections tied on one track and the smaller one was matched
C13_Witness ==
    /\ result.done
    /\ program = "_match"
    /\ Len(result.value.matches) >= 1
    /\ \E pair \in RemainingPairs(1) :
          /\ RatioEQ(MatchIoU(pair), MatchIoU(result.value.matches[1]))
          /\ box_area(args.detections[pair[1]])
                > box_area(args.detections[result.value.matches[1][1]])

(***************************************************************************)
(* detect.py: configuration                                                *)
(* Times are in whole seconds; time.time() is far above every cooldown.    *)
(***************************************************************************)
LOG_COOLDOWN == 30
PHONE_ALERT_COOLDOWN == 10
UNAUTHORIZED_FACE_GRACE == 3
UNAUTHORIZED_NO_FACE_GRACE == 15
UnseenTimeout == 5              \* "if timestamp - p_state['last_seen'] > 5.0"
FramePad == 15                  \* pad
MinCropWidth == 50              \* "(cx2-cx1) > 50"
FrameWidth == 1920
FrameHeight == 1080
DuplicateOverlap == <<6, 10>>   \* "interArea / union > 0.6"
IdentifyThreshold == <<1, 2>>   \* "score > 0.5"
EmbeddingNorm == 10             \* the embeddings below are unit vectors times 10

StartTime == 1000               \* time.time() when the loop starts
MaxTime == 48                   \* seconds of the loop that are explored

\* normed embeddings: unit vectors, scaled by EmbeddingNorm
EmbAlice == <<10, 0>>
EmbBob == <<0, 10>>
EmbNearAlice == <<8, 6>>        \* 0.8 with Alice, 0.6 with Bob
EmbStranger == <<-6, -8>>
NoFace == <<>>                  \* app.get(person_crop) found no face
FaceOutcomes == {NoFace, EmbNearAlice, EmbBob, EmbStranger}

RECURSIVE DotUpTo(_, _, _)
DotUpTo(a, b, n) == IF n = 0 THEN 0 ELSE DotUpTo(a, b, n - 1) + a[n] * b[n]

\* np.dot of two vectors of the same length
Dot(a, b) == DotUpTo(a, b, Len(a))

\* np.argmax: the first index of the maximum
ArgMax(sims) ==
    CHOOSE k \in 1..Len(sims) :
        /\ \A j \in 1..Len(sims) : sims[j] <= sims[k]
        /\ \A j \in 1..(k - 1) : sims[j] < sims[k]

\* TrackerState.identify_face
identify_face(embeddings, names, face_embedding) ==
    IF Len(embeddings) = 0 THEN "Unknown"
    ELSE LET sims == [k \in 1..Len(embeddings) |-> Dot(embeddings[k], face_embedding)]
             best_idx == ArgMax(sims)
             score == <<sims[best_idx], EmbeddingNorm * EmbeddingNorm>>
         IN  IF RatioGT(score, IdentifyThreshold) THEN names[best_idx] ELSE "Unknown"

(***************************************************************************)
(* detect.py: one frame of the main loop                                   *)
(***************************************************************************)
PersonWide == <<10, 10, 50, 50>>
PersonWideLow == <<10, 10, 50, 46>>     \* overlaps PersonWide by 0.9
PersonNarrow == <<100, 10, 110, 50>>    \* the padded crop is 40 wide
PhoneInside == <<25, 25, 35, 35>>       \* centre (30, 30)
PhoneOnEdge == <<45, 25, 55, 35>>       \* centre (50, 30), on PersonWide's edge

PersonDet(tid, b) == [id |-> tid, box |-> b, area |-> box_area(b)]

\* What one frame holds: whether cap.read() succeeded, the tracked person
\* boxes and the phone boxes of model.track, and what app.get finds in the
\* crop of each person.
Scene(camera, persons, phones, faces) ==
    [camera |-> camera, persons |-> persons, phones |-> phones, faces |-> faces]

CameraDown == Scene(FALSE, <<>>, <<>>, <<>>)
EmptyRoom == Scene(TRUE, <<>>, <<>>, <<>>)

DetectScenes ==
    {CameraDown, EmptyRoom}
    \cup {Scene(TRUE, <<PersonDet(1, PersonWide)>>, ph, <<f>>) :
            ph \in {<<>>, <<PhoneInside>>}, f \in FaceOutcomes}
    \cup {Scene(TRUE, <<PersonDet(1, PersonWide)>>, <<PhoneOnEdge>>, <<NoFace>>),
          Scene(TRUE, <<PersonDet(1, PersonNarrow)>>, <<PhoneInside>>, <<EmbNearAlice>>),
          Scene(TRUE, <<PersonDet(2, PersonWideLow), PersonDet(1, PersonWide)>>,
                <<>>, <<EmbBob, EmbNearAlice>>)}

\* the scene changes only at these instants (seconds after StartTime)
DetectChangeTimes == {1, 7, 14}

DetectScenesAt(now) ==
    IF now - StartTime \in DetectChangeTimes THEN DetectScenes ELSE {scene}

\* list.sort(key=area, reverse=True): stable insertion by decreasing area
RECURSIVE SortByAreaDesc(_)
SortByAreaDesc(dets) ==
    IF Len(dets) = 0 THEN <<>>
    ELSE LET k == CHOOSE i \in 1..Len(dets) :
                     /\ \A j \in 1..Len(dets) : dets[j].area <= dets[i].area
                     /\ \A j \in 1..(i - 1) : dets[j].area < dets[i].area
         IN  <<dets[k]>> \o SortByAreaDesc(SubSeq(dets, 1, k - 1) \o SubSeq(dets, k + 1, Len(dets)))

\* "if two boxes overlap > 50%, keep largest"
IsDuplicate(p, kept) ==
    \E k \in 1..Len(kept) :
        LET o == iou(p.box, kept[k].box)
        IN  o[1] > 0 /\ RatioGT(o, DuplicateOverlap)

RECURSIVE KeepLargest(_, _)
KeepLargest(dets, kept) ==
    IF Len(dets) = 0 THEN kept
    ELSE KeepLargest(Tail(dets),
                     IF IsDuplicate(Head(dets), kept) THEN kept ELSE Append(kept, Head(dets)))

\* current_person_boxes, in insertion order
CurrentPersonBoxes(person_dets) == KeepLargest(SortByAreaDesc(person_dets), <<>>)

\* "if person_crop.size > 0 and (cx2-cx1) > 50"
CropIsChecked(bbox) ==
    LET cx1 == Max2(0, bbox[1] - FramePad)
        cy1 == Max2(0, bbox[2] - FramePad)
        cx2 == Min2(FrameWidth, bbox[3] + FramePad)
        cy2 == Min2(FrameHeight, bbox[4] + FramePad)
    IN  cx2 > cx1 /\ cy2 > cy1 /\ (cx2 - cx1) > MinCropWidth

\* "If phone center is roughly inside person box"
HasPhone(bbox, phone_boxes) ==
    \E k \in 1..Len(phone_boxes) :
        LET ph == phone_boxes[k]
        IN  /\ 2 * bbox[1] < ph[1] + ph[3] /\ ph[1] + ph[3] < 2 * bbox[3]
            /\ 2 * bbox[2] < ph[2] + ph[4] /\ ph[2] + ph[4] < 2 * bbox[4]

NewPersonState(now) ==
    [name |-> "Unknown", first_seen |-> now, last_seen |-> now, last_log |-> 0,
     last_phone_log |-> 0, face_attempts |-> 0, has_face_seen |-> FALSE]

Event(kind, tid, name) == [event_type |-> kind, track_id |-> tid, user_name |-> name]

RecogniseFace_Always(p, tid, bbox, now, face) ==
    IF CropIsChecked(bbox) /\ face # NoFace
    THEN LET name == identify_face(known_embeddings, known_names, face)
         IN  IF name # "Unknown"
             THEN [p |-> [p EXCEPT !.has_face_seen = TRUE, !.name = name], ev |-> {}]
             ELSE [p |-> [p EXCEPT !.has_face_seen = TRUE, !.face_attempts = @ + 1],
                   ev |-> {}]
    ELSE [p |-> p, ev |-> {}]

\* "--- FACE RECOGNITION ---": the state of the track and the events logged
RecogniseFace(p, tid, bbox, now, face) ==
    IF p.name = "Unknown" /\ CropIsChecked(bbox) /\ face # NoFace
    THEN LET name == identify_face(known_embeddings, known_names, face)
         IN  IF name # "Unknown"
             THEN IF now - p.last_log > LOG_COOLDOWN
                  THEN [p |-> [p EXCEPT !.has_face_seen = TRUE, !.name = name,
                                        !.last_log = now],
                        ev |-> {Event("entry", tid, name)}]
                  ELSE [p |-> [p EXCEPT !.has_face_seen = TRUE, !.name = name],
                        ev |-> {}]
             ELSE [p |-> [p EXCEPT !.has_face_seen = TRUE, !.face_attempts = @ + 1],
                   ev |-> {}]
    ELSE [p |-> p, ev |-> {}]

IsUnauthorized_OneGrace(p, now) ==
    /\ p.name = "Unknown"
    /\ now - p.first_seen > UNAUTHORIZED_FACE_GRACE

IsUnauthorized(p, now) ==
    /\ p.name = "Unknown"
    /\ IF p.has_face_seen
       THEN now - p.first_seen > UNAUTHORIZED_FACE_GRACE
       ELSE now - p.first_seen > UNAUTHORIZED_NO_FACE_GRACE

LogUnauthorized_AtCooldown(p, tid, now) ==
    IF IsUnauthorized(p, now) /\ now - p.last_log >= LOG_COOLDOWN
    THEN [p |-> [p EXCEPT !.last_log = now],
          ev |-> {Event("unauthorized", tid, "Unknown (ID)")}]
    ELSE [p |-> p, ev |-> {}]

\* "--- LOG UNAUTHORIZED ---"
LogUnauthorized(p, tid, now) ==
    IF IsUnauthorized(p, now) /\ now - p.last_log > LOG_COOLDOWN
    THEN [p |-> [p EXCEPT !.last_log = now],
          ev |-> {Event("unauthorized", tid, "Unknown (ID)")}]
    ELSE [p |-> p, ev |-> {}]

LogPhone_NamedOnly(p, tid, bbox, now, phone_boxes) ==
    IF /\ HasPhone(bbox, phone_boxes) /\ p.name # "Unknown"
       /\ now - p.last_phone_log > PHONE_ALERT_COOLDOWN
    THEN [p |-> [p EXCEPT !.last_phone_log = now],
          ev |-> {Event("phone_detected", tid, p.name)}]
    ELSE [p |-> p, ev |-> {}]

LogPhone_NoStamp(p, tid, bbox, now, phone_boxes) ==
    IF HasPhone(bbox, phone_boxes) /\ now - p.last_phone_log > PHONE_ALERT_COOLDOWN
    THEN [p |-> p, ev |-> {Event("phone_detected", tid, p.name)}]
    ELSE [p |-> p, ev |-> {}]

\* "--- PHONE DETECTION ---"
LogPhone(p, tid, bbox, now, phone_boxes) ==
    IF HasPhone(bbox, phone_boxes) /\ now - p.last_phone_log > PHONE_ALERT_COOLDOWN
    THEN [p |-> [p EXCEPT !.last_phone_log = now],
          ev |-> {Event("phone_detected", tid, p.name)}]
    ELSE [p |-> p, ev |-> {}]

\* the body of "for track_id, bbox in current_person_boxes.items()"
ProcessTrack(map, tid, bbox, now, face, phone_boxes) ==
    LET p0 == IF tid \in DOMAIN map THEN map[tid] ELSE NewPersonState(now)
        p1 == [p0 EXCEPT !.last_seen = now]
        r2 == RecogniseFace(p1, tid, bbox, now, face)
        r3 == LogUnauthorized(r2.p, tid, now)
        r4 == LogPhone(r3.p, tid, bbox, now, phone_boxes)
    IN  [p |-> r4.p, ev |-> r2.ev \cup r3.ev \cup r4.ev]

\* "Clean up old tracks and log EXITS"
Expired(map, now) == {tid \in DOMAIN map : now - map[tid].last_seen > UnseenTimeout}

ExitEvents_All(map, now) ==
    {Event("exit", tid, map[tid].name) : tid \in Expired(map, now)}

ExitEvents(map, now) ==
    {Event("exit", tid, map[tid].name) : tid \in {t \in Expired(map, now) : map[t].name # "Unknown"}}

CleanUp(map, now) == [tid \in DOMAIN map \ Expired(map, now) |-> map[tid]]

BoxOf(current, tid) == (CHOOSE k \in 1..Len(current) : current[k].id = tid)

\* the box of a track in the frame just handled
current_box(tid) ==
    LET current == CurrentPersonBoxes(scene.persons)
    IN  IF \E k \in 1..Len(current) : current[k].id = tid
        THEN current[BoxOf(current, tid)].box
        ELSE <<0, 0, 0, 0>>

\* what the events of one frame add to the history of the tracks
NoHistory ==
    [entry |-> 0, unauthorized |-> 0, phone_detected |-> 0,
     last_entry |-> 0, last_unauthorized |-> 0, last_phone_detected |-> 0]

Sent(evs, kind, tid) == \E e \in evs : e.event_type = kind /\ e.track_id = tid

Record(h, evs, tid, now) ==
    [entry |-> h.entry + (IF Sent(evs, "entry", tid) THEN 1 ELSE 0),
     unauthorized |-> h.unauthorized + (IF Sent(evs, "unauthorized", tid) THEN 1 ELSE 0),
     phone_detected |-> h.phone_detected + (IF Sent(evs, "phone_detected", tid) THEN 1 ELSE 0),
     last_entry |-> IF Sent(evs, "entry", tid) THEN now ELSE h.last_entry,
     last_unauthorized |-> IF Sent(evs, "unauthorized", tid) THEN now ELSE h.last_unauthorized,
     last_phone_detected |-> IF Sent(evs, "phone_detected", tid) THEN now ELSE h.last_phone_detected]

InitDetect ==
    /\ program = "detect"
    /\ TrackerIdle /\ SystemIdle /\ CallIdle /\ ServicesIdle
    /\ timestamp = StartTime
    /\ person_map = <<>>
    /\ known_embeddings = <<EmbAlice, EmbBob>>
    /\ known_names = <<"Alice", "Bob">>
    /\ events = {}
    /\ history = <<>>
    /\ scene = EmptyRoom

\* iterations explored of a frame loop that is run as a whole
MaxLoopFrames == 13

TimeBound == IF program = "detect_loop" THEN MaxLoopFrames ELSE MaxTime

\* A frame loop that is run as a whole goes on while loop.running.
InLoop(alone, whole) == program = alone \/ (program = whole /\ loop.running)

Looping(delivered) == [running |-> TRUE, delivered |-> delivered]

Stopped(delivered) == [running |-> FALSE, delivered |-> delivered]

\* what one iteration does with the frame sc read at time now
DetectResult(map, h, sc, now) ==
    LET current == CurrentPersonBoxes(sc.persons)
        ids == {current[k].id : k \in 1..Len(current)}
        face == [tid \in ids |->
                    sc.faces[CHOOSE k \in 1..Len(sc.persons) : sc.persons[k].id = tid]]
        cleaned == CleanUp(map, now)
        res == [tid \in ids |->
                   ProcessTrack(cleaned, tid, current[BoxOf(current, tid)].box,
                                now, face[tid], sc.phones)]
        evs == ExitEvents(map, now) \cup UNION {res[tid].ev : tid \in ids}
    IN  [person_map |-> [tid \in DOMAIN cleaned \cup ids |->
                            IF tid \in ids THEN res[tid].p ELSE cleaned[tid]],
         events |-> evs,
         history |-> [tid \in DOMAIN cleaned \cup ids |->
                         Record(IF tid \in DOMAIN cleaned THEN h[tid]
                                ELSE NoHistory, evs, tid, now)]]

\* one iteration of "while True" in which cap.read() returned a frame
DetectFrame ==
    /\ InLoop("detect", "detect_loop")
    /\ timestamp < StartTime + TimeBound
    /\ \E sc \in DetectScenesAt(timestamp + 1) :
        LET r == DetectResult(person_map, history, sc, timestamp + 1)
        IN  /\ sc.camera
            /\ scene' = sc
            /\ timestamp' = timestamp + 1
            /\ person_map' = r.person_map
            /\ events' = r.events
            /\ history' = r.history
            /\ loop' = IF program = "detect_loop" THEN Looping(r.events) ELSE loop
    /\ UNCHANGED <<program, trackerVars, systemVars, callVars, known_embeddings, known_names,
                 serverVars, cameraVars, websocketVars>>

\* an iteration in which cap.read() failed: "time.sleep(1); continue"
DetectReadFailed ==
    /\ InLoop("detect", "detect_loop")
    /\ timestamp < StartTime + TimeBound
    /\ \E sc \in DetectScenesAt(timestamp + 1) :
          /\ ~sc.camera
          /\ scene' = sc
    /\ timestamp' = timestamp + 1
    /\ UNCHANGED <<program, trackerVars, systemVars, callVars, person_map, known_embeddings,
                   known_names, events, history, serviceVars>>

\* an iteration in which database.log_event or sio.emit raises: nothing in
\* detect.py catches it, so the exception leaves the loop.  The events
\* before the failing one were written; person_map is not used again.
DetectPublishFailed ==
    /\ InLoop("detect_loop", "detect_loop")
    /\ timestamp < StartTime + TimeBound
    /\ \E sc \in DetectScenesAt(timestamp + 1) :
        LET r == DetectResult(person_map, history, sc, timestamp + 1)
        IN  /\ sc.camera
            /\ r.events # {}
            /\ scene' = sc
            /\ timestamp' = timestamp + 1
            /\ events' = r.events
            /\ \E sent \in SUBSET r.events :
                  /\ sent # r.events
                  /\ loop' = Stopped(sent)
    /\ UNCHANGED <<program, trackerVars, systemVars, callVars, person_map, known_embeddings,
                   known_names, history, serverVars, cameraVars, websocketVars>>

NextDetect == DetectFrame \/ DetectReadFailed

SpecDetect == InitDetect /\ [][NextDetect]_vars

(***************************************************************************)
(* main.py: VideoAnalyticsSystem                                           *)
(* fps_history (a display statistic of wall-clock times) is left out.      *)
(***************************************************************************)
face_detection_interval == 10
grace_period_frames == 45
min_face_attempts == 5
PersonMaxAge == 30              \* BoTSORTTracker(max_age=30, min_hits=1, ...)
PhoneMaxAge == 15               \* BoTSORTTracker(max_age=15, min_hits=1, ...)
SystemMinHits == 1
SystemIouThreshold == <<3, 10>>

MaxSysFrames == 93              \* frames of the run that are explored

\* what detect_faces gives for the region of a person: no face, the face of
\* somebody who is not registered ("no_match"), or the face of the person
\* named
SysFaceOutcomes == {"no_face", "no_match", "Alice", "Bob"}
MatchConfidence == 9            \* the confidence of a match, in tenths

PhoneBox == <<1, 1, 2, 2>>

SystemScenes ==
    {Scene(TRUE, persons, phones, f) :
        persons \in {<<>>, <<Detection(BoxA)>>},
        phones \in {<<>>, <<Detection(PhoneBox)>>},
        f \in SysFaceOutcomes}

\* the scene changes only at these frames
SystemChangeFrames == {1, 12, 55}

SystemScenesAt(n) == IF n \in SystemChangeFrames THEN SystemScenes ELSE {scene}

NewTrackedPerson ==
    [name |-> "None", logged |-> FALSE, confidence |-> 0, frames_tracked |-> 0,
     attempt_count |-> 0, face_detected_count |-> 0, no_face_count |-> 0,
     identification_complete |-> FALSE]

FaceDetected_EitherTest(p, track_id, face) ==
    LET p1 == [p EXCEPT !.face_detected_count = @ + 1]
    IN  IF face # "no_match"
        THEN [p |-> [p1 EXCEPT !.name = face, !.confidence = MatchConfidence,
                               !.logged = TRUE, !.identification_complete = TRUE],
              ev |-> {Event("entry", track_id, face)}]
        ELSE IF \/ p1.face_detected_count >= min_face_attempts
                \/ p1.frames_tracked >= grace_period_frames
        THEN [p |-> [p1 EXCEPT !.name = "Unknown", !.logged = TRUE,
                               !.identification_complete = TRUE],
              ev |-> {Event("unauthorized", track_id, "Unknown")}]
        ELSE [p |-> p1, ev |-> {}]

\* "Face detected!": the state of the track and the events logged
FaceDetected(p, track_id, face) ==
    LET p1 == [p EXCEPT !.face_detected_count = @ + 1]
    IN  IF face # "no_match"
        THEN [p |-> [p1 EXCEPT !.name = face, !.confidence = MatchConfidence,
                               !.logged = TRUE, !.identification_complete = TRUE],
              ev |-> {Event("entry", track_id, face)}]
        ELSE IF /\ p1.face_detected_count >= min_face_attempts
                /\ p1.frames_tracked >= grace_period_frames
        THEN [p |-> [p1 EXCEPT !.name = "Unknown", !.logged = TRUE,
                               !.identification_complete = TRUE],
              ev |-> {Event("unauthorized", track_id, "Unknown")}]
        ELSE [p |-> p1, ev |-> {}]

\* "No face detected" without the counter: used to test C31
NoFaceDetected_NotCounted(p, track_id) ==
    IF /\ p.frames_tracked >= grace_period_frames * 2
       /\ p.face_detected_count = 0
    THEN [p |-> [p EXCEPT !.name = "Unknown", !.logged = TRUE,
                          !.identification_complete = TRUE],
          ev |-> {Event("unauthorized", track_id, "Unknown")}]
    ELSE [p |-> p, ev |-> {}]

\* "No face detected - keep trying"
NoFaceDetected(p, track_id) ==
    LET p1 == [p EXCEPT !.no_face_count = @ + 1]
    IN  IF /\ p1.frames_tracked >= grace_period_frames * 2
           /\ p1.face_detected_count = 0
        THEN [p |-> [p1 EXCEPT !.name = "Unknown", !.logged = TRUE,
                               !.identification_complete = TRUE],
              ev |-> {Event("unauthorized", track_id, "Unknown")}]
        ELSE [p |-> p1, ev |-> {}]

IsSampled_AtMultiples(p) == p.frames_tracked % face_detection_interval = 0

\* "Only try face detection every N frames"
IsSampled(p) == p.frames_tracked % face_detection_interval = 1

\* The matching service: whether a request to /api/faces/match is answered
\* with status 200, answered with another status, or ends in an exception
\* (connection refused, timeout after 2 s), and the names registered there.
Backend(answers, registered) == [answers |-> answers, registered |-> registered]

Registered == {"Alice", "Bob"}

\* routes/faces.py match_face over face_service.find_matching_person, for
\* the face of a stranger ("no_match") or of the person named: (None, None)
\* when nothing is registered or nobody registered matches
MatchResponse(registered, face) ==
    IF registered = {} THEN "no_match"
    ELSE IF face \in registered THEN face ELSE "no_match"

match_face_local_Unchecked(face) == face

\* match_face_local, which is APIClient.find_matching_person: "no_match"
\* stands for (None, None)
match_face_local(face) ==
    IF backend.answers = "exception" THEN "no_match"
    ELSE IF backend.answers = "ok" THEN MatchResponse(backend.registered, face)
    ELSE "no_match"

\* the body of "for track_id, bbox in tracked_persons.items()"
ProcessPerson(persons, track_id, face) ==
    LET p0 == IF track_id \in DOMAIN persons THEN persons[track_id] ELSE NewTrackedPerson
        p1 == [p0 EXCEPT !.frames_tracked = @ + 1]
    IN  IF ~p1.identification_complete /\ IsSampled(p1)
        THEN LET p2 == [p1 EXCEPT !.attempt_count = @ + 1]
             IN  IF face # "no_face"
                 THEN FaceDetected(p2, track_id, match_face_local(face))
                 ELSE NoFaceDetected(p2, track_id)
        ELSE [p |-> p1, ev |-> {}]

\* a phone log in every frame that shows the track: used to test C36
ProcessPhone_EveryFrame(phones, phone_track_id, n) ==
    [p |-> [logged |-> TRUE,
            first_seen |-> IF phone_track_id \in DOMAIN phones
                           THEN phones[phone_track_id].first_seen ELSE n],
     ev |-> {Event("phone_detected", phone_track_id, "phone")}]

\* "4. Track and draw phones": first_seen is kept as the frame number
ProcessPhone(phones, phone_track_id, n) ==
    IF phone_track_id \in DOMAIN phones
    THEN [p |-> phones[phone_track_id], ev |-> {}]
    ELSE [p |-> [logged |-> TRUE, first_seen |-> n],
          ev |-> {Event("phone_detected", phone_track_id, "phone")}]

PersonEvents(evs) == {e \in evs : e.event_type # "phone_detected"}

\* the per-track states after the loop over the returned tracks: the states
\* kept from earlier frames, with those of the returned tracks set or added
AfterLoop(states, returned, res) ==
    [tid \in DOMAIN states \cup returned |->
        IF tid \in returned THEN res[tid].p ELSE states[tid]]

DeleteLost_Nothing(states, active_track_ids) == states

\* "Clean up lost tracks", "Clean up lost phone tracks"
DeleteLost(states, active_track_ids) ==
    LET lost_tracks == DOMAIN states \ active_track_ids
    IN  [tid \in DOMAIN states \ lost_tracks |-> states[tid]]

InitSystem ==
    /\ program = "system"
    /\ TrackerIdle /\ DetectIdle /\ CallIdle /\ ServicesIdle
    /\ person_tracker = BoTSORTTracker(PersonMaxAge, SystemMinHits, SystemIouThreshold)
    /\ phone_tracker = BoTSORTTracker(PhoneMaxAge, SystemMinHits, SystemIouThreshold)
    /\ tracked_persons = <<>>
    /\ tracked_phones = <<>>
    /\ frame_count = 0
    /\ backend = Backend("ok", Registered)
    /\ events = {}
    /\ history = <<>>
    /\ scene = Scene(TRUE, <<>>, <<>>, "no_face")

FrameBound == IF program = "run" THEN MaxLoopFrames ELSE MaxSysFrames

\* VideoAnalyticsSystem.process_frame.  log_person_detection and
\* log_phone_detection catch every exception and give up after 2 s, so an
\* event either reaches the sink or does not, and process_frame goes on.
ProcessFrame ==
    /\ InLoop("system", "run")
    /\ frame_count < FrameBound
    /\ \E sc \in SystemScenesAt(frame_count + 1) :
        LET n == frame_count + 1
            pu == update(person_tracker, sc.persons)
            fu == update(phone_tracker, sc.phones)
            persons_now == DOMAIN pu.ret
            phones_now == DOMAIN fu.ret
            pres == [tid \in persons_now |-> ProcessPerson(tracked_persons, tid, sc.faces)]
            fres == [tid \in phones_now |-> ProcessPhone(tracked_phones, tid, n)]
            evs == UNION {pres[tid].ev : tid \in persons_now}
                     \cup UNION {fres[tid].ev : tid \in phones_now}
        IN  /\ scene' = sc
            /\ person_tracker' = pu.self
            /\ phone_tracker' = fu.self
            /\ tracked_persons' =
                   DeleteLost(AfterLoop(tracked_persons, persons_now, pres), persons_now)
            /\ tracked_phones' =
                   DeleteLost(AfterLoop(tracked_phones, phones_now, fres), phones_now)
            /\ frame_count' = n
            /\ events' = evs
            /\ history' = [tid \in persons_now |->
                              Record(IF tid \in DOMAIN tracked_persons THEN history[tid]
                                     ELSE NoHistory, PersonEvents(evs), tid, n)]
            /\ IF program = "run"
               THEN \E sent \in SUBSET evs : loop' = Looping(sent)
               ELSE UNCHANGED loop
    /\ UNCHANGED <<program, backend, trackerVars, detectVars, callVars, serverVars,
                   cameraVars, websocketVars>>

NextSystem == ProcessFrame

SpecSystem == InitSystem /\ [][NextSystem]_vars

(***************************************************************************)
(* Both identity pipelines: a run executes main.py or detect.py.           *)
(***************************************************************************)
InitPipelines == InitSystem \/ InitDetect

NextPipelines == NextSystem \/ NextDetect

SpecPipelines == InitPipelines /\ [][NextPipelines]_vars

(***************************************************************************)
(* Properties of the decision state machine and of the event gate          *)
(***************************************************************************)
\* the decision of a track of process_frame
SystemDecision(p) ==
    IF ~p.identification_complete THEN "Identifying"
    ELSE IF p.name = "Unknown" THEN "Unknown" ELSE p.name

\* the decision of a track of detect.py: Unknown once it was flagged
DetectDecision(p, h) ==
    IF p.name # "Unknown" THEN p.name
    ELSE IF h.unauthorized > 0 THEN "Unknown" ELSE "Identifying"

\* the entry of person_map of a track id is the same one before and after a step
SameEntry(tid) ==
    /\ tid \in DOMAIN person_map /\ tid \in DOMAIN person_map'
    /\ person_map'[tid].first_seen = person_map[tid].first_seen

\* the track was in the frame just handled
InFrame(tid) == tid \in DOMAIN person_map /\ person_map[tid].last_seen = timestamp

SentNow(kind, tid) == Sent(events, kind, tid)

\* C5 as claimed: a decided track keeps its decision for as long as its track
\* id is tracked, in process_frame and in detect.py.
C5_Original ==
    [][/\ \A tid \in DOMAIN tracked_persons \cap DOMAIN tracked_persons' :
             tracked_persons[tid].identification_complete
                => SystemDecision(tracked_persons'[tid]) = SystemDecision(tracked_persons[tid])
       /\ \A tid \in DOMAIN person_map \cap DOMAIN person_map' :
             DetectDecision(person_map[tid], history[tid]) # "Identifying"
                => DetectDecision(person_map'[tid], history'[tid])
                     = DetectDecision(person_map[tid], history[tid])]_vars

\* C5 as amended: in process_frame a decided track keeps its decision and name
\* until it leaves tracked_persons, which happens only when the tracker has
\* dropped the id; in detect.py a track that has a registered name keeps it
\* for as long as its person_map entry exists.
C5_DecisionKept ==
    [][/\ \A tid \in DOMAIN tracked_persons :
             tracked_persons[tid].identification_complete
                => IF tid \in DOMAIN tracked_persons'
                   THEN /\ tracked_persons'[tid].identification_complete
                        /\ tracked_persons'[tid].name = tracked_persons[tid].name
                   ELSE tid \notin DOMAIN person_tracker'.tracks
       /\ \A tid \in DOMAIN person_map :
             (person_map[tid].name # "Unknown" /\ SameEntry(tid))
                => person_map'[tid].name = person_map[tid].name]_vars

\* detect.py: a track that was flagged Unknown and then got a name has kept
\* the name for ten seconds in front of other faces
C5_Witness ==
    \E tid \in DOMAIN person_map :
        /\ person_map[tid].name = "Alice"
        /\ history[tid].unauthorized > 0
        /\ InFrame(tid)
        /\ timestamp - history[tid].last_unauthorized >= 10

\* C6 as claimed: a second event of a kind is suppressed while less than the
\* cooldown has passed since the last one and is sent at the first frame at
\* which the cooldown has passed (t2 - t >= cooldown).
C6_Original ==
    /\ [](\A tid \in DOMAIN person_map :
            /\ (InFrame(tid) /\ person_map[tid].name = "Unknown"
                    /\ history[tid].unauthorized >= 1)
                  => timestamp - history[tid].last_unauthorized < LOG_COOLDOWN
            /\ (InFrame(tid) /\ HasPhone(current_box(tid), scene.phones)
                    /\ history[tid].phone_detected >= 1)
                  => timestamp - history[tid].last_phone_detected < PHONE_ALERT_COOLDOWN)
    /\ [][\A tid \in DOMAIN person_map :
            SameEntry(tid) =>
                /\ (Sent(events', "unauthorized", tid) /\ history[tid].unauthorized >= 1)
                      => timestamp' - history[tid].last_unauthorized >= LOG_COOLDOWN
                /\ (Sent(events', "phone_detected", tid) /\ history[tid].phone_detected >= 1)
                      => timestamp' - history[tid].last_phone_detected >= PHONE_ALERT_COOLDOWN]_vars

\* C6 as amended: a second event of a kind is suppressed while at most the
\* cooldown has passed since the last one (t2 - t <= cooldown) and is sent at
\* the first frame at which more than the cooldown has passed; last_log and
\* last_phone_log change only when an event is sent, to the time of the frame.
C6_StrictCooldown ==
    /\ [](\A tid \in DOMAIN person_map :
            /\ (InFrame(tid) /\ person_map[tid].name = "Unknown"
                    /\ history[tid].unauthorized >= 1)
                  => timestamp - history[tid].last_unauthorized <= LOG_COOLDOWN
            /\ (InFrame(tid) /\ HasPhone(current_box(tid), scene.phones)
                    /\ history[tid].phone_detected >= 1)
                  => timestamp - history[tid].last_phone_detected <= PHONE_ALERT_COOLDOWN)
    /\ [][\A tid \in DOMAIN person_map :
            SameEntry(tid) =>
                /\ (Sent(events', "unauthorized", tid) /\ history[tid].unauthorized >= 1)
                      => timestamp' - history[tid].last_unauthorized > LOG_COOLDOWN
                /\ (Sent(events', "phone_detected", tid) /\ history[tid].phone_detected >= 1)
                      => timestamp' - history[tid].last_phone_detected > PHONE_ALERT_COOLDOWN
                /\ person_map'[tid].last_log # person_map[tid].last_log
                      => /\ Sent(events', "entry", tid) \/ Sent(events', "unauthorized", tid)
                         /\ person_map'[tid].last_log = timestamp'
                /\ person_map'[tid].last_phone_log # person_map[tid].last_phone_log
                      => /\ Sent(events', "phone_detected", tid)
                         /\ person_map'[tid].last_phone_log = timestamp']_vars

\* a track was flagged a second time, and had its second phone alert
C6_Witness ==
    \E tid \in DOMAIN person_map :
        /\ history[tid].unauthorized >= 2
        /\ history[tid].phone_detected >= 2
        /\ SentNow("unauthorized", tid)

\* C7: a track whose face matches a registered name becomes Authorized with
\* that name, exactly one entry event is emitted for it over its lifetime, and
\* no later frame changes the name.
C7_OneEntryPerAuthorized ==
    /\ [](/\ \A tid \in DOMAIN tracked_persons :
                (tracked_persons[tid].identification_complete
                    /\ tracked_persons[tid].name # "Unknown")
                   => history[tid].entry = 1
          /\ \A tid \in DOMAIN person_map :
                person_map[tid].name # "Unknown" => history[tid].entry = 1)
    /\ [][/\ \A tid \in DOMAIN tracked_persons \cap DOMAIN tracked_persons' :
                tracked_persons[tid].name \notin {"None", "Unknown"}
                   => tracked_persons'[tid].name = tracked_persons[tid].name
          /\ \A tid \in DOMAIN person_map :
                (person_map[tid].name # "Unknown" /\ SameEntry(tid))
                   => person_map'[tid].name = person_map[tid].name]_vars

\* C8 as claimed: a track on which no face is ever detected gets no
\* unauthorized event before the no-face grace period has passed and exactly
\* one in total, at the first frame handled after the grace period.
C8_Original ==
    /\ \A tid \in DOMAIN person_map :
          (InFrame(tid) /\ ~person_map[tid].has_face_seen)
             => history[tid].unauthorized =
                   (IF timestamp - person_map[tid].first_seen > UNAUTHORIZED_NO_FACE_GRACE
                    THEN 1 ELSE 0)
    /\ \A tid \in DOMAIN tracked_persons :
          tracked_persons[tid].face_detected_count = 0
             => history[tid].unauthorized =
                   (IF tracked_persons[tid].frames_tracked > grace_period_frames * 2
                    THEN 1 ELSE 0)

\* C8 as amended: such a track gets no unauthorized event before the no-face
\* grace period has passed and its first one at the first frame that shows it
\* after that (more than 15 s after first_seen in detect.py, frame 91 of the
\* track in process_frame); process_frame emits exactly one, detect.py emits
\* it again at the first frame that shows the track more than LOG_COOLDOWN
\* after the previous one, for as long as the track stays in view.
C8_FirstAfterGraceThenPerCooldown ==
    /\ [](/\ \A tid \in DOMAIN person_map :
                (InFrame(tid) /\ ~person_map[tid].has_face_seen)
                   => /\ history[tid].unauthorized >= 1
                         <=> timestamp - person_map[tid].first_seen > UNAUTHORIZED_NO_FACE_GRACE
                      /\ history[tid].unauthorized >= 1
                         => timestamp - history[tid].last_unauthorized <= LOG_COOLDOWN
          /\ \A tid \in DOMAIN tracked_persons :
                tracked_persons[tid].face_detected_count = 0
                   => history[tid].unauthorized =
                         (IF tracked_persons[tid].frames_tracked > grace_period_frames * 2
                          THEN 1 ELSE 0))
    /\ [][\A tid \in DOMAIN person_map :
             (SameEntry(tid) /\ ~person_map'[tid].has_face_seen
                 /\ Sent(events', "unauthorized", tid))
                => IF history[tid].unauthorized = 0
                   THEN timestamp' - person_map[tid].first_seen > UNAUTHORIZED_NO_FACE_GRACE
                   ELSE timestamp' - history[tid].last_unauthorized > LOG_COOLDOWN]_vars

\* detect.py: a track without any face seen was flagged a second time
C8_Witness ==
    \E tid \in DOMAIN person_map :
        /\ ~person_map[tid].has_face_seen
        /\ history[tid].unauthorized = 2
        /\ SentNow("unauthorized", tid)

\* C9: with a phone box centred inside the box of a tracked person in every
\* frame, two phone_detected events of the track are more than
\* PHONE_ALERT_COOLDOWN apart and every frame lies within PHONE_ALERT_COOLDOWN
\* of the last one (one event per window), whatever the name and the face
\* status of the track.
C9_PhoneOncePerWindow ==
    /\ [](\A tid \in DOMAIN person_map :
             (InFrame(tid) /\ HasPhone(current_box(tid), scene.phones))
                => /\ history[tid].phone_detected >= 1
                   /\ timestamp - history[tid].last_phone_detected <= PHONE_ALERT_COOLDOWN)
    /\ [][\A tid \in DOMAIN person_map :
             (SameEntry(tid) /\ Sent(events', "phone_detected", tid)
                 /\ history[tid].phone_detected >= 1)
                => timestamp' - history[tid].last_phone_detected > PHONE_ALERT_COOLDOWN]_vars

\* a track that was Identifying, then flagged Unknown, then named, with a phone
\* all along, is at its third phone alert
C9_Witness ==
    \E tid \in DOMAIN person_map :
        /\ person_map[tid].name = "Alice"
        /\ history[tid].unauthorized >= 1
        /\ history[tid].phone_detected >= 3
        /\ SentNow("phone_detected", tid)

\* C10: an exit event is emitted only in the frame that removes the track from
\* person_map and only for a track with a registered name, under that name,
\* and once; a track removed while its name is Unknown emits none.
C10_ExitOnlyForAuthorized ==
    [][/\ \A e \in events' :
             e.event_type = "exit"
                => /\ e.track_id \in DOMAIN person_map
                   /\ ~SameEntry(e.track_id)
                   /\ person_map[e.track_id].name # "Unknown"
                   /\ e.user_name = person_map[e.track_id].name
       /\ \A tid \in DOMAIN person_map :
             Cardinality({e \in events' : e.event_type = "exit" /\ e.track_id = tid})
                = (IF ~SameEntry(tid) /\ person_map[tid].name # "Unknown" THEN 1 ELSE 0)]_vars

\* a named track was removed and its exit logged
C10_Witness ==
    /\ program = "detect"
    /\ \E e \in events : e.event_type = "exit" /\ e.user_name = "Alice"
    /\ person_map = <<>>

\* C15 as claimed: a track on which a face was detected but never matched is
\* decided Unknown, with an unauthorized event, only when a face has been
\* seen at least min_face_attempts times and at least the with-face grace
\* period has passed since the track was first seen.
C15_Original ==
    /\ \A tid \in DOMAIN tracked_persons :
          (tracked_persons[tid].name = "Unknown"
              /\ tracked_persons[tid].face_detected_count >= 1)
             => /\ tracked_persons[tid].face_detected_count >= min_face_attempts
                /\ tracked_persons[tid].frames_tracked >= grace_period_frames
    /\ \A tid \in DOMAIN person_map :
          (SentNow("unauthorized", tid) /\ person_map[tid].has_face_seen)
             => /\ person_map[tid].face_attempts >= min_face_attempts
                /\ timestamp - person_map[tid].first_seen >= UNAUTHORIZED_FACE_GRACE

\* C15 as amended: process_frame decides such a track Unknown only at a
\* sampled frame at which a face has been detected at least min_face_attempts
\* times and frames_tracked >= grace_period_frames; detect.py counts no
\* sightings: it sends unauthorized for a track whose name is Unknown as soon
\* as a face has been seen once and more than UNAUTHORIZED_FACE_GRACE seconds
\* have passed since first_seen, never at or before that time.
C15_FaceGrace ==
    /\ \A tid \in DOMAIN tracked_persons :
          (tracked_persons[tid].name = "Unknown"
              /\ tracked_persons[tid].face_detected_count >= 1)
             => /\ tracked_persons[tid].face_detected_count >= min_face_attempts
                /\ tracked_persons[tid].frames_tracked >= grace_period_frames
                /\ history[tid].unauthorized = 1
    /\ \A tid \in DOMAIN person_map :
          /\ SentNow("unauthorized", tid)
                => /\ person_map[tid].name = "Unknown"
                   /\ timestamp - person_map[tid].first_seen > UNAUTHORIZED_FACE_GRACE
          /\ (InFrame(tid) /\ person_map[tid].has_face_seen
                  /\ person_map[tid].name = "Unknown"
                  /\ timestamp - person_map[tid].first_seen > UNAUTHORIZED_FACE_GRACE)
                => history[tid].unauthorized >= 1

\* detect.py flagged a track on the first and only sighting of a face
C15_Witness ==
    \E tid \in DOMAIN person_map :
        /\ SentNow("unauthorized", tid)
        /\ person_map[tid].has_face_seen
        /\ person_map[tid].face_attempts = 1
        /\ history[tid].unauthorized = 1

\* C16: in detect.py whether an event of one kind is sent for a track
\* depends only on the trigger of that kind and on the time of the last event
\* of that same kind for that track: an entry event is sent when the track
\* gets its name unless an entry event was sent during the last LOG_COOLDOWN
\* seconds, whatever unauthorized or phone_detected events were sent before,
\* and likewise for the other two kinds.
C16_PerKindCooldown ==
    [][\A tid \in DOMAIN person_map :
          (SameEntry(tid) /\ person_map'[tid].last_seen = timestamp') =>
             /\ (person_map[tid].name = "Unknown" /\ person_map'[tid].name # "Unknown")
                   => (Sent(events', "entry", tid)
                         <=> timestamp' - history[tid].last_entry > LOG_COOLDOWN)
             /\ IsUnauthorized(person_map'[tid], timestamp')
                   => (Sent(events', "unauthorized", tid)
                         <=> timestamp' - history[tid].last_unauthorized > LOG_COOLDOWN)
             /\ HasPhone(current_box(tid)', scene'.phones)
                   => (Sent(events', "phone_detected", tid)
                         <=> timestamp' - history[tid].last_phone_detected
                                > PHONE_ALERT_COOLDOWN)]_vars

\* the value a cooldown timestamp of a track had before the frame; a
\* person_map entry made in the frame starts with 0
LastLogBefore(tid) == IF SameEntry(tid) THEN person_map[tid].last_log ELSE 0
LastPhoneLogBefore(tid) == IF SameEntry(tid) THEN person_map[tid].last_phone_log ELSE 0

\* the event passed the cooldown comparison of its kind and set the timestamp
PassedGate(e) ==
    /\ e.track_id \in DOMAIN person_map'
    /\ IF e.event_type = "phone_detected"
       THEN /\ timestamp' - LastPhoneLogBefore(e.track_id) > PHONE_ALERT_COOLDOWN
            /\ person_map'[e.track_id].last_phone_log = timestamp'
       ELSE /\ timestamp' - LastLogBefore(e.track_id) > LOG_COOLDOWN
            /\ person_map'[e.track_id].last_log = timestamp'

\* the step handles a frame that was read from the camera
FrameHandled == program = "detect" /\ timestamp' # timestamp /\ scene'.camera

\* C17 as claimed: every event the detect.py loop writes, exit included, was
\* admitted by the cooldown comparison of its track and updated that
\* cooldown timestamp.
C17_Original ==
    [][FrameHandled => \A e \in events' : PassedGate(e)]_vars

\* C17 as amended: every entry, unauthorized and phone_detected event was
\* admitted by a cooldown comparison (last_log for entry and unauthorized,
\* last_phone_log for phone_detected) and set that timestamp to the time of
\* the frame; an exit event passes no comparison and sets no timestamp: it is
\* written once for every named entry that is removed.
C17_GatedExceptExit ==
    [][FrameHandled =>
          /\ \A e \in events' : e.event_type # "exit" => PassedGate(e)
          /\ \A e \in events' :
                e.event_type = "exit"
                   => /\ e.track_id \in Expired(person_map, timestamp')
                      /\ person_map[e.track_id].name = e.user_name
          /\ \A tid \in Expired(person_map, timestamp') :
                person_map[tid].name # "Unknown" => Sent(events', "exit", tid)]_vars

\* an exit event was written for a track that has no person_map entry, and
\* so no cooldown timestamp, any more
C17_Witness ==
    /\ program = "detect"
    /\ \E e \in events :
          /\ e.event_type = "exit"
          /\ e.user_name = "Bob"
          /\ e.track_id \notin DOMAIN person_map

(***************************************************************************)
(* Identity matching on its own: face_service.find_matching_person and     *)
(* TrackerState.identify_face on any small registry and any query.         *)
(* The embeddings have 4 components and norm 10, so that the division by   *)
(* the norms is exact in the source as well:                               *)
(*   VecA.VecB = 50 (0.5), VecA.VecC = 0, VecA.VecD = -100 (-1),           *)
(*   VecA.VecE = 80 (0.8), VecB.VecC = 50, VecB.VecE = 70, VecC.VecE = 60. *)
(***************************************************************************)
MaxRegistry == 3    \* registered embeddings

VecA == <<5, 5, 5, 5>>
VecB == <<5, 5, 5, -5>>
VecC == <<5, 5, -5, -5>>
VecD == <<-5, -5, -5, -5>>
VecE == <<7, 7, 1, 1>>
Vectors == {VecA, VecB, VecC, VecD, VecE}

RegistryNames == <<"Alice", "Bob", "Carol", "Dave">>

face_similarity_threshold == <<1, 2>>   \* backend/config.py: 0.5

\* np.linalg.norm, for vectors whose norm is a whole number
Norm(v) == CHOOSE n \in 0..Dot(v, v) : n * n = Dot(v, v)

\* face_service.cosine_similarity, as an exact ratio
cosine_similarity(embedding1, embedding2) ==
    <<Dot(embedding1, embedding2), Norm(embedding1) * Norm(embedding2)>>

NoMatch == [person_name |-> "None", confidence |-> <<0, 1>>]

RECURSIVE BestMatch_LastWins(_, _, _, _)
BestMatch_LastWins(face_embedding, registered_embeddings, k, best) ==
    IF k > Len(registered_embeddings) THEN best
    ELSE LET similarity == cosine_similarity(face_embedding, registered_embeddings[k].embedding)
         IN  BestMatch_LastWins(face_embedding, registered_embeddings, k + 1,
                 IF RatioGE(similarity, best.best_similarity) /\ similarity[1] > 0
                 THEN [best_match |-> registered_embeddings[k].name,
                       best_similarity |-> similarity]
                 ELSE best)

\* the loop "for name, stored_embedding in registered_embeddings.items()"
RECURSIVE BestMatch(_, _, _, _)
BestMatch(face_embedding, registered_embeddings, k, best) ==
    IF k > Len(registered_embeddings) THEN best
    ELSE LET similarity == cosine_similarity(face_embedding, registered_embeddings[k].embedding)
         IN  BestMatch(face_embedding, registered_embeddings, k + 1,
                 IF RatioGT(similarity, best.best_similarity)
                 THEN [best_match |-> registered_embeddings[k].name,
                       best_similarity |-> similarity]
                 ELSE best)

\* face_service.find_matching_person on the cached registry, a sequence of
\* [name, embedding] in the order of the dict
find_matching_person(face_embedding, registered_embeddings) ==
    IF Len(registered_embeddings) = 0 THEN NoMatch
    ELSE LET best == BestMatch(face_embedding, registered_embeddings, 1,
                               [best_match |-> "None", best_similarity |-> <<0, 1>>])
         IN  IF RatioGE(best.best_similarity, face_similarity_threshold)
             THEN [person_name |-> best.best_match, confidence |-> best.best_similarity]
             ELSE NoMatch

\* a registry: up to MaxRegistry embeddings, named in the order of insertion
Registries ==
    {[k \in 1..Len(embs) |-> [name |-> RegistryNames[k], embedding |-> embs[k]]] :
        embs \in SeqsUpTo(Vectors, MaxRegistry)}

InitIdentify ==
    /\ program = "identify"
    /\ TrackerIdle /\ SystemIdle /\ DetectIdle /\ LogIdle /\ ServicesIdle
    /\ args \in [registry : Registries, face_embedding : Vectors]
    /\ result = Pending

CallIdentify ==
    /\ program = "identify"
    /\ ~result.done
    /\ result' = Returned(
          [find_matching_person |-> find_matching_person(args.face_embedding, args.registry),
           identify_face |->
              identify_face([k \in 1..Len(args.registry) |-> args.registry[k].embedding],
                            [k \in 1..Len(args.registry) |-> args.registry[k].name],
                            args.face_embedding)])
    /\ UNCHANGED <<program, trackerVars, systemVars, detectVars, logVars, args, serviceVars>>

NextIdentify == CallIdentify

SpecIdentify == InitIdentify /\ [][NextIdentify]_vars

\* the similarities of the query with the registry, and the first entry
\* that has the largest one
Similarities == [k \in 1..Len(args.registry) |->
                    cosine_similarity(args.face_embedding, args.registry[k].embedding)]

FirstBest ==
    CHOOSE k \in 1..Len(args.registry) :
        /\ \A j \in 1..Len(args.registry) : RatioGE(Similarities[k], Similarities[j])
        /\ \A j \in 1..(k - 1) : RatioLT(Similarities[j], Similarities[k])

\* C18 as claimed: both routines return the first registered name of maximal
\* cosine similarity when that maximum exceeds the match threshold and no
\* match otherwise.
C18_Original ==
    result.done =>
        LET expected == IF Len(args.registry) > 0
                           /\ RatioGT(Similarities[FirstBest], face_similarity_threshold)
                        THEN args.registry[FirstBest].name ELSE "None"
        IN  /\ result.value.find_matching_person.person_name = expected
            /\ result.value.identify_face = (IF expected = "None" THEN "Unknown" ELSE expected)

\* C18 as amended: identify_face returns the first registered name of maximal
\* similarity when that maximum is greater than 0.5 and "Unknown" otherwise;
\* find_matching_person returns the first registered name of maximal
\* similarity, with that similarity, when the maximum is greater than or
\* equal to face_similarity_threshold, and (None, None) otherwise.
C18_BestMatchAtThreshold ==
    result.done =>
        /\ result.value.identify_face =
              (IF Len(args.registry) > 0
                  /\ RatioGT(Similarities[FirstBest], IdentifyThreshold)
               THEN args.registry[FirstBest].name ELSE "Unknown")
        /\ result.value.find_matching_person =
              (IF Len(args.registry) > 0
                  /\ RatioGE(Similarities[FirstBest], face_similarity_threshold)
               THEN [person_name |-> args.registry[FirstBest].name,
                     confidence |-> Similarities[FirstBest]]
               ELSE NoMatch)

\* the best similarity is exactly the threshold and is shared by two
\* registered names: find_matching_person returns the first, identify_face
\* returns Unknown
C18_Witness ==
    /\ program = "identify"
    /\ result.done
    /\ Len(args.registry) = 3
    /\ RatioEQ(Similarities[FirstBest], face_similarity_threshold)
    /\ FirstBest = 2
    /\ RatioEQ(Similarities[3], Similarities[2])
    /\ result.value.find_matching_person.person_name = "Bob"
    /\ result.value.identify_face = "Unknown"

---------------------------------------------------------------------------
\* numpy float32 arithmetic (IEEE 754 binary32, round to nearest, ties to
\* even).  A value is [s, m, e] and stands for s * m * 2^e, with s the sign
\* (1 or -1) and m a 24-bit significand, 2^23 <= m < 2^24; zero has m = 0.
\* Subnormals, infinities and NaN do not occur for the vectors below.  Every
\* intermediate number stays below 2^31.

Two12 == 4096
Two23 == 8388608
Two24 == 16777216

RECURSIVE Pow2(_)
Pow2(n) == IF n = 0 THEN 1 ELSE 2 * Pow2(n - 1)

Zero32 == [s |-> 1, m |-> 0, e |-> 0]
One32 == [s |-> 1, m |-> Two23, e |-> -23]

\* the significand m followed by the discarded part rem, where half is the
\* weight of half a unit in the last place: round to nearest, ties to even
RoundPack(s, m, rem, half, e) ==
    LET up == rem > half \/ (rem = half /\ half > 0 /\ m % 2 = 1)
        r == IF up THEN m + 1 ELSE m
    IN  IF r = Two24 THEN [s |-> s, m |-> Two23, e |-> e + 1]
        ELSE [s |-> s, m |-> r, e |-> e]

RECURSIVE Normalize(_, _, _)
Normalize(s, m, e) ==
    IF m = 0 THEN Zero32
    ELSE IF m >= Two23 THEN [s |-> s, m |-> m, e |-> e]
    ELSE Normalize(s, 2 * m, e - 1)

\* np.array(..., dtype=np.float32) of a whole number below 2^24: exact
FromInt(n) == Normalize(IF n < 0 THEN -1 ELSE 1, IF n < 0 THEN -n ELSE n, 0)

FromVector(v) == [k \in 1..Len(v) |-> FromInt(v[k])]

\* the product hi * 2^24 + lo of two significands, rounded to 24 bits
MulResult(s, hi, lo, e) ==
    IF hi >= Two23
    THEN RoundPack(s, hi, lo, Two23, e + 24)
    ELSE RoundPack(s, 2 * hi + (lo \div Two23), lo % Two23, Two23 \div 2, e + 23)

\* x * y: the 48-bit product of the significands, in two 24-bit halves
Mul32(x, y) ==
    IF x.m = 0 \/ y.m = 0 THEN Zero32
    ELSE LET a1 == x.m \div Two12
             a0 == x.m % Two12
             b1 == y.m \div Two12
             b0 == y.m % Two12
             mid == a1 * b0 + a0 * b1
             t == (mid % Two12) * Two12 + a0 * b0
         IN  MulResult(x.s * y.s, a1 * b1 + (mid \div Two12) + (t \div Two24),
                       t % Two24, x.e + y.e)

\* n more bits of the quotient q, with remainder r, of a division by d
RECURSIVE DivSteps(_, _, _, _)
DivSteps(q, r, d, n) ==
    IF n = 0 THEN <<q, r>>
    ELSE IF 2 * r >= d THEN DivSteps(2 * q + 1, 2 * r - d, d, n - 1)
    ELSE DivSteps(2 * q, 2 * r, d, n - 1)

\* the quotient q of 25 or 26 bits, rounded to 24 bits; sticky is 1 when the
\* division left a remainder
DivResult(s, q, sticky, e) ==
    IF q >= 2 * Two24
    THEN RoundPack(s, q \div 4, 2 * (q % 4) + sticky, 4, e - 23)
    ELSE RoundPack(s, q \div 2, 2 * (q % 2) + sticky, 2, e - 24)

DivRounded(s, qr, e) == DivResult(s, qr[1], IF qr[2] # 0 THEN 1 ELSE 0, e)

\* x / y, y not zero
Div32(x, y) ==
    IF x.m = 0 THEN Zero32
    ELSE DivRounded(x.s * y.s, DivSteps(x.m \div y.m, x.m % y.m, y.m, 25), x.e - y.e)

\* the whole part of the square root of n, lo * lo <= n < hi * hi
RECURSIVE ISqrt(_, _, _)
ISqrt(n, lo, hi) ==
    IF hi - lo <= 1 THEN lo
    ELSE LET mid == (lo + hi) \div 2
         IN  IF mid * mid <= n THEN ISqrt(n, mid, hi) ELSE ISqrt(n, lo, mid)

\* n more bits of the square root, with remainder rem, of a radicand that is
\* extended by 2n zero bits
RECURSIVE SqrtSteps(_, _, _)
SqrtSteps(root, rem, n) ==
    IF n = 0 THEN <<root, rem>>
    ELSE IF 4 * rem >= 4 * root + 1
         THEN SqrtSteps(2 * root + 1, 4 * rem - (4 * root + 1), n - 1)
         ELSE SqrtSteps(2 * root, 4 * rem, n - 1)

\* the root q of 25 bits with remainder, rounded to 24 bits
SqrtRounded(qr, e) ==
    RoundPack(1, qr[1] \div 2, 2 * (qr[1] % 2) + (IF qr[2] # 0 THEN 1 ELSE 0), 2, e)

\* the square root of M * 2^24, M below 2^26, from the whole part of the
\* square root of M
SqrtFrom(M, root, e) == SqrtRounded(SqrtSteps(root, M - root * root, 12), e)

\* the square root of M * 2^E, E even
SqrtOf(M, E) == SqrtFrom(M, ISqrt(M, 0, 2 * Two12), (E \div 2) - 11)

\* sqrt(x), x positive
Sqrt32(x) ==
    IF x.m = 0 THEN Zero32
    ELSE IF x.e % 2 = 0 THEN SqrtOf(4 * x.m, x.e - 2)
    ELSE SqrtOf(2 * x.m, x.e - 1)

\* the number of bits of R above the 24th
RECURSIVE Excess(_)
Excess(R) == IF R < Two24 THEN 0 ELSE 1 + Excess(R \div 2)

\* t shifted right by the bits of p, the last bit set when a bit was lost
StickyShift(t, p) ==
    IF t % p # 0 /\ (t \div p) % 2 = 0 THEN (t \div p) + 1 ELSE t \div p

Shifted(t, d) == IF d >= 28 THEN 1 ELSE StickyShift(t, Pow2(d))

\* R with its k bits above the 24th rounded away
RoundShift(s, R, k, e) ==
    IF k = 0 THEN Normalize(s, R, e)
    ELSE RoundPack(s, R \div Pow2(k), R % Pow2(k), Pow2(k) \div 2, e + k)

AddResult(s, R, e) == IF R = 0 THEN Zero32 ELSE RoundShift(s, R, Excess(R), e)

\* b + sm, b the one of larger magnitude
AddOrdered(b, sm) ==
    AddResult(b.s,
              IF b.s = sm.s THEN 8 * b.m + Shifted(8 * sm.m, b.e - sm.e)
              ELSE 8 * b.m - Shifted(8 * sm.m, b.e - sm.e),
              b.e - 3)

\* x + y, with three extra bits (guard, round, sticky) below the significand
Add32(x, y) ==
    IF x.m = 0 THEN y
    ELSE IF y.m = 0 THEN x
    ELSE IF x.e > y.e \/ (x.e = y.e /\ x.m >= y.m) THEN AddOrdered(x, y)
    ELSE AddOrdered(y, x)

MagLess(x, y) ==
    IF y.m = 0 THEN FALSE
    ELSE IF x.m = 0 THEN TRUE
    ELSE x.e < y.e \/ (x.e = y.e /\ x.m < y.m)

Less32(x, y) ==
    IF x.s = 1 /\ y.s = 1 THEN MagLess(x, y)
    ELSE IF x.s = -1 /\ y.s = -1 THEN MagLess(y, x)
    ELSE x.s = -1

LessEq32(x, y) == ~Less32(y, x)

\* np.dot of two float32 vectors: the products are added in index order
RECURSIVE Dot32UpTo(_, _, _)
Dot32UpTo(a, b, n) ==
    IF n = 0 THEN Zero32
    ELSE LET sum == Dot32UpTo(a, b, n - 1)
             product == Mul32(a[n], b[n])
         IN  Add32(sum, product)

Dot32(a, b) == Dot32UpTo(a, b, Len(a))

\* np.linalg.norm of a float32 vector: sqrt(dot(x, x)), a float32
Norm32(a) ==
    LET sqnorm == Dot32(a, a)
    IN  Sqrt32(sqnorm)

---------------------------------------------------------------------------
\* The similarity routines, on float32 vectors: face_service.cosine_similarity
\* and DuplicateFaceChecker._calculate_similarity.

MaxComponent == 3   \* components of the vectors are whole numbers up to this size
Dimension == 2

\* the non-zero vectors, as np.array(..., dtype=np.float32)
SimilarityVectors ==
    {v \in [1..Dimension -> (-MaxComponent)..MaxComponent] : \E k \in 1..Dimension : v[k] # 0}

\* np.dot(embedding1, embedding2) / (np.linalg.norm(embedding1) * np.linalg.norm(embedding2))
cosine_similarity_float32(embedding1, embedding2) ==
    LET dot == Dot32(embedding1, embedding2)
        norm1 == Norm32(embedding1)
        norm2 == Norm32(embedding2)
        norms == Mul32(norm1, norm2)
    IN  Div32(dot, norms)

\* encoding / np.linalg.norm(encoding)
Normalized(encoding) ==
    LET norm == Norm32(encoding)
    IN  [k \in 1..Len(encoding) |-> Div32(encoding[k], norm)]

_calculate_similarity_NoClamp(encoding1, encoding2) ==
    LET encoding1_norm == Normalized(encoding1)
        encoding2_norm == Normalized(encoding2)
    IN  Dot32(encoding1_norm, encoding2_norm)

\* Python's min(a, b) and max(a, b): the second argument only when it is
\* smaller, respectively larger
Min32(a, b) == IF Less32(b, a) THEN b ELSE a
Max32(a, b) == IF Less32(a, b) THEN b ELSE a

\* DuplicateFaceChecker._calculate_similarity: the dot product of the
\* normalized encodings, then max(0.0, min(1.0, similarity))
_calculate_similarity(encoding1, encoding2) ==
    LET encoding1_norm == Normalized(encoding1)
        encoding2_norm == Normalized(encoding2)
        similarity == Dot32(encoding1_norm, encoding2_norm)
    IN  Max32(Zero32, Min32(One32, similarity))

InitSimilarity ==
    /\ program = "similarity"
    /\ TrackerIdle /\ SystemIdle /\ DetectIdle /\ LogIdle /\ ServicesIdle
    /\ args \in [a : SimilarityVectors, b : SimilarityVectors]
    /\ result = Pending

\* both routines, called on (a, b) and on (b, a)
CallSimilarity ==
    /\ program = "similarity"
    /\ ~result.done
    /\ LET a == FromVector(args.a)
           b == FromVector(args.b)
       IN  result' = Returned(
              [cosine_similarity |-> cosine_similarity_float32(a, b),
               cosine_similarity_swapped |-> cosine_similarity_float32(b, a),
               _calculate_similarity |-> _calculate_similarity(a, b),
               _calculate_similarity_swapped |-> _calculate_similarity(b, a)])
    /\ UNCHANGED <<program, trackerVars, systemVars, detectVars, logVars, args, serviceVars>>

NextSimilarity == CallSimilarity

SpecSimilarity == InitSimilarity /\ [][NextSimilarity]_vars

MinusOne32 == [s |-> -1, m |-> Two23, e |-> -23]

\* 1 + 2^-22 and 1 - 2^-22, two units in the last place above 1.0 and four
\* below it
RoundingAbove == [s |-> 1, m |-> Two23 + 2, e |-> -23]
RoundingBelow == [s |-> 1, m |-> Two24 - 4, e |-> -24]

Between32(x, lo, hi) == LessEq32(lo, x) /\ LessEq32(x, hi)

\* C19 as claimed: each similarity routine is symmetric, its value lies in
\* [-1, 1] for all non-zero vectors, and the similarity of a vector with
\* itself is 1.0.
C19_Original ==
    result.done =>
        /\ result.value.cosine_similarity = result.value.cosine_similarity_swapped
        /\ result.value._calculate_similarity = result.value._calculate_similarity_swapped
        /\ Between32(result.value.cosine_similarity, MinusOne32, One32)
        /\ Between32(result.value._calculate_similarity, MinusOne32, One32)
        /\ args.a = args.b =>
              /\ result.value.cosine_similarity = One32
              /\ result.value._calculate_similarity = One32

\* C19 as amended: each routine is symmetric; cosine_similarity lies in
\* [-1, 1] and is 1.0 for a vector with itself only up to float32 rounding
\* (within 2^-22), so it can exceed 1.0; _calculate_similarity lies in
\* [0, 1], reporting negative cosines as 0.0, and is within 2^-22 of 1.0 for
\* a vector with itself.
C19_UpToRounding ==
    result.done =>
        /\ result.value.cosine_similarity = result.value.cosine_similarity_swapped
        /\ result.value._calculate_similarity = result.value._calculate_similarity_swapped
        /\ Between32(result.value.cosine_similarity,
                     [RoundingAbove EXCEPT !.s = -1], RoundingAbove)
        /\ Between32(result.value._calculate_similarity, Zero32, One32)
        /\ Dot(args.a, args.b) <= 0 => result.value._calculate_similarity = Zero32
        /\ args.a = args.b =>
              /\ Between32(result.value.cosine_similarity, RoundingBelow, RoundingAbove)
              /\ Between32(result.value._calculate_similarity, RoundingBelow, One32)

\* the vector (1, 1) with itself: cosine_similarity returns the float32 next
\* above 1.0 and _calculate_similarity the float32 next below 1.0
C19_Witness ==
    /\ program = "similarity"
    /\ result.done
    /\ args.a = <<1, 1>>
    /\ args.b = <<1, 1>>
    /\ result.value.cosine_similarity = [s |-> 1, m |-> Two23 + 1, e |-> -23]
    /\ result.value._calculate_similarity = [s |-> 1, m |-> Two24 - 1, e |-> -24]

---------------------------------------------------------------------------
\* DuplicateFaceChecker.check_duplicate and, for comparison, the recognition
\* of the same iteration: VideoProcessor._match_face through
\* InsightFaceDetectionService.find_best_match and compare_faces.

MaxPersons == 2     \* rows of the persons table

\* the least float32 values that are not below the doubles 0.7 and 0.6: a
\* float32 similarity is >= 0.7 exactly when it is not below the first
DefaultSimilarityThreshold == [s |-> 1, m |-> 11744052, e |-> -24]
DefaultRecognitionThreshold == [s |-> 1, m |-> 10066330, e |-> -24]

DuplicateFaceChecker(similarity_threshold) == [similarity_threshold |-> similarity_threshold]

Encodings == {<<3, 4>>, <<4, 3>>, <<1, 0>>, <<1, 1>>, <<-3, -4>>}

\* the persons table: rows in the order of the query, named in that order
PersonTables ==
    {[k \in 1..Len(rows) |-> [name |-> RegistryNames[k],
                              is_active |-> rows[k].is_active,
                              face_encoding |-> rows[k].face_encoding]] :
        rows \in SeqsUpTo([is_active : BOOLEAN, face_encoding : Encodings], MaxPersons)}

IsActive(person) == person.is_active

NotDuplicate == [is_duplicate |-> FALSE, match_name |-> "None", similarity |-> Zero32]

Better_LastWins(best, person, similarity) ==
    IF LessEq32(best.highest_similarity, similarity) /\ similarity # Zero32
    THEN [best_match |-> person.name, highest_similarity |-> similarity]
    ELSE best

\* "if similarity > highest_similarity"
Better(best, person, similarity) ==
    IF Less32(best.highest_similarity, similarity)
    THEN [best_match |-> person.name, highest_similarity |-> similarity]
    ELSE best

\* the loop "for person in existing_persons"
RECURSIVE BestDuplicate(_, _, _, _)
BestDuplicate(new_encoding, existing_persons, k, best) ==
    IF k > Len(existing_persons) THEN best
    ELSE LET encoding == FromVector(new_encoding)
             stored_encoding == FromVector(existing_persons[k].face_encoding)
             similarity == _calculate_similarity(encoding, stored_encoding)
         IN  BestDuplicate(new_encoding, existing_persons, k + 1,
                           Better(best, existing_persons[k], similarity))

\* the result for the best match found
DuplicateResult(self, best) ==
    IF LessEq32(self.similarity_threshold, best.highest_similarity)
    THEN [is_duplicate |-> TRUE, match_name |-> best.best_match,
          similarity |-> best.highest_similarity]
    ELSE [is_duplicate |-> FALSE, match_name |-> "None",
          similarity |-> best.highest_similarity]

\* DuplicateFaceChecker.check_duplicate, persons being the rows of the table
check_duplicate(self, new_encoding, persons) ==
    IF Len(SelectSeq(persons, IsActive)) = 0 THEN NotDuplicate
    ELSE DuplicateResult(self,
             BestDuplicate(new_encoding, SelectSeq(persons, IsActive), 1,
                           [best_match |-> "None", highest_similarity |-> Zero32]))

\* "matches = [sim >= tolerance for sim in similarities]"
Compared(similarities, tolerance) ==
    [matches |-> [k \in 1..Len(similarities) |-> LessEq32(tolerance, similarities[k])],
     similarities |-> similarities]

\* InsightFaceDetectionService.compare_faces
compare_faces(known_encodings, face_embedding, tolerance) ==
    LET embedding == FromVector(face_embedding)
        face_embedding_norm == Normalized(embedding)
    IN  Compared([k \in 1..Len(known_encodings) |->
                     LET known_embedding == FromVector(known_encodings[k])
                         known_norm == Normalized(known_embedding)
                     IN  Dot32(face_embedding_norm, known_norm)],
                 tolerance)

\* np.argmax: the first index of the largest value
ArgMax32(similarities) ==
    CHOOSE k \in 1..Len(similarities) :
        /\ \A j \in 1..Len(similarities) : LessEq32(similarities[j], similarities[k])
        /\ \A j \in 1..(k - 1) : Less32(similarities[j], similarities[k])

\* the best of the compared faces; index 0 stands for None
BestCompared(c) ==
    IF \A k \in 1..Len(c.matches) : ~c.matches[k]
    THEN [best_match_idx |-> 0, best_similarity |-> Zero32]
    ELSE [best_match_idx |-> ArgMax32(c.similarities),
          best_similarity |-> c.similarities[ArgMax32(c.similarities)]]

\* InsightFaceDetectionService.find_best_match
find_best_match(known_encodings, face_embedding, tolerance) ==
    IF Len(known_encodings) = 0 THEN [best_match_idx |-> 0, best_similarity |-> Zero32]
    ELSE BestCompared(compare_faces(known_encodings, face_embedding, tolerance))

InitDuplicate ==
    /\ program = "check_duplicate"
    /\ TrackerIdle /\ SystemIdle /\ DetectIdle /\ LogIdle /\ ServicesIdle
    /\ args \in [persons : PersonTables, new_encoding : Encodings]
    /\ result = Pending

\* the active rows' encodings, as VideoProcessor._load_known_persons keeps them
KnownEncodings(persons) ==
    LET active == SelectSeq(persons, IsActive)
    IN  [k \in 1..Len(active) |-> active[k].face_encoding]

CallDuplicate ==
    /\ program = "check_duplicate"
    /\ ~result.done
    /\ result' = Returned(
          [check_duplicate |->
              check_duplicate(DuplicateFaceChecker(DefaultSimilarityThreshold),
                              args.new_encoding, args.persons),
           find_best_match |->
              find_best_match(KnownEncodings(args.persons), args.new_encoding,
                              DefaultRecognitionThreshold)])
    /\ UNCHANGED <<program, trackerVars, systemVars, detectVars, logVars, args, serviceVars>>

NextDuplicate == CallDuplicate

SpecDuplicate == InitDuplicate /\ [][NextDuplicate]_vars

\* the active rows, the similarity recognition computes for each of them,
\* and the first row that has the largest one
ActivePersons == SelectSeq(args.persons, IsActive)

RecognitionSimilarities ==
    compare_faces(KnownEncodings(args.persons), args.new_encoding,
                  DefaultRecognitionThreshold).similarities

Clamped(x) == IF Less32(x, Zero32) THEN Zero32 ELSE IF Less32(One32, x) THEN One32 ELSE x

\* C20 as claimed: is_duplicate is true exactly when the highest similarity
\* of the new encoding with the active persons is at least the duplicate
\* threshold, the person reported is then the one of highest similarity, the
\* duplicate threshold is strictly higher than the recognition threshold, and
\* the similarity is the one recognition computes.
C20_Original ==
    (result.done /\ Len(ActivePersons) > 0) =>
        LET best == ArgMax32(RecognitionSimilarities)
            highest == RecognitionSimilarities[best]
        IN  /\ result.value.check_duplicate.is_duplicate
                  = LessEq32(DefaultSimilarityThreshold, highest)
            /\ result.value.check_duplicate.is_duplicate =>
                  result.value.check_duplicate.match_name = ActivePersons[best].name
            /\ Less32(DefaultRecognitionThreshold, DefaultSimilarityThreshold)
            /\ result.value.check_duplicate.similarity = highest

\* C20 as amended: with the default thresholds (0.7 for duplicates, 0.6 for
\* recognition) is_duplicate is true exactly when the highest similarity of
\* the new encoding with the active persons is at least 0.7; the person
\* reported is then the first active person of highest similarity, and none
\* otherwise; the similarity reported is the highest one in both cases, 0.0
\* without active persons; it is computed by _calculate_similarity, which is
\* the similarity of recognition clamped to [0, 1].
C20_ClampedSimilarity ==
    result.done =>
        IF Len(ActivePersons) = 0
        THEN result.value.check_duplicate = NotDuplicate
        ELSE LET best == ArgMax32(RecognitionSimilarities)
                 highest == Clamped(RecognitionSimilarities[best])
                 is_duplicate == LessEq32(DefaultSimilarityThreshold, highest)
             IN  /\ result.value.check_duplicate.is_duplicate = is_duplicate
                 /\ result.value.check_duplicate.match_name =
                       (IF is_duplicate THEN ActivePersons[best].name ELSE "None")
                 /\ result.value.check_duplicate.similarity = highest
                 /\ Less32(DefaultRecognitionThreshold, DefaultSimilarityThreshold)
                 /\ is_duplicate =>
                       result.value.find_best_match.best_match_idx = best

\* an inactive row equal to the new encoding is ignored and the active row,
\* of similarity 0.96, is reported
C20_Witness ==
    /\ program = "check_duplicate"
    /\ result.done
    /\ Len(args.persons) = 2
    /\ ~args.persons[1].is_active
    /\ args.persons[1].face_encoding = args.new_encoding
    /\ args.persons[2].is_active
    /\ result.value.check_duplicate.is_duplicate
    /\ result.value.check_duplicate.match_name = "Bob"
    /\ Less32(result.value.check_duplicate.similarity, One32)
    /\ result.value.find_best_match.best_match_idx = 1

\* ------------------------------------------------------------------------
\* The backend of video-analytics-system: the registered_persons table, the
\* embeddings cache of services/face_service.py and the routes of
\* routes/faces.py that read and write them.  Every request is served by a
\* worker; a worker's position in its handler is requests[w].pc.  The module
\* globals are read and written one at a time and no lock guards them, so a
\* step is one read or one write of a global, or one statement on the
\* database.
\* ------------------------------------------------------------------------

TTL == 300

Names == {"Alice"}
Workers == {1, 2}
MaxWrites == 2
MaxUptime == 300
Delays == {TTL - 1, TTL}

IdleRequest ==
    [op |-> "none", pc |-> "idle", name |-> "", current_time |-> 0,
     seen_timestamp |-> 0, persons |-> None, write |-> 0, since |-> 0,
     outcome |-> "none", returned |-> None]

\* What db.query(RegisteredPerson).all() gives, turned into the dictionary
\* keyed by name; version counts the commits the query has seen.
Snapshot(names, version) == [names |-> names, version |-> version]

\* One request at a time in the sequential program; any interleaving of the
\* workers' steps in the concurrent one.
Scheduled(w) ==
    \/ program = "server"
    \/ /\ program = "server_sequential"
       /\ \A v \in Workers \ {w} : requests[v].pc = "idle"

Writing(v) ==
    /\ requests[v].op \in {"register_person", "delete_person"}
    /\ requests[v].pc # "idle"

\* register_person is a coroutine: between two awaits it has the event loop
\* to itself, so no other register_person runs while one is between its
\* await and its return.
LoopFree(w) ==
    \A v \in Workers \ {w} :
        ~(/\ requests[v].op = "register_person"
          /\ requests[v].pc \in {"invalidate_cache", "invalidate_timestamp"})

Respond(w, outcome, returned) ==
    [IdleRequest EXCEPT !.op = requests[w].op, !.name = requests[w].name,
                        !.current_time = requests[w].current_time,
                        !.seen_timestamp = requests[w].seen_timestamp,
                        !.since = requests[w].since,
                        !.outcome = outcome, !.returned = returned]

existing_Never(name) == FALSE

existing(name) == name \in registry

IsFresh_AtTTL(current_time, loaded_at) == current_time - loaded_at <= TTL

IsFresh(current_time, loaded_at) == current_time - loaded_at < TTL

\* The steps of the backend leave the other programs' state alone.
ServerOnly ==
    UNCHANGED <<program, trackerVars, systemVars, detectVars, logVars, callVars,
                cameraVars, websocketVars, loop>>

\* routes/faces.py, register_person up to its await.
register_person(w, name) ==
    /\ program \in {"server", "server_sequential"}
    /\ Scheduled(w)
    /\ LoopFree(w)
    /\ requests[w].pc = "idle"
    /\ commits + Cardinality({v \in Workers : Writing(v)}) < MaxWrites
    /\ requests' = [requests EXCEPT ![w] =
           IF existing(name)
           THEN [IdleRequest EXCEPT !.op = "register_person", !.name = name,
                                    !.outcome = "rejected"]
           ELSE [IdleRequest EXCEPT !.op = "register_person", !.name = name,
                                    !.pc = "await_photo"]]
    /\ UNCHANGED <<registry, commits, _face_embeddings_cache, _cache_timestamp,
                   clock, invalidated>>
    /\ ServerOnly

\* register_person from the await to the commit; valid is whether the photo
\* and the embedding can be read.  The name column is unique, so the commit
\* of a name that was registered during the await raises.
AddPerson(w, valid) ==
    /\ Scheduled(w)
    /\ LoopFree(w)
    /\ requests[w].op = "register_person"
    /\ requests[w].pc = "await_photo"
    /\ IF ~valid
       THEN /\ requests' = [requests EXCEPT ![w] = Respond(w, "invalid", None)]
            /\ UNCHANGED <<registry, commits>>
       ELSE IF requests[w].name \in registry
       THEN /\ requests' = [requests EXCEPT ![w] = Respond(w, "error", None)]
            /\ UNCHANGED <<registry, commits>>
       ELSE /\ registry' = registry \cup {requests[w].name}
            /\ commits' = commits + 1
            /\ requests' = [requests EXCEPT ![w].pc = "invalidate_cache",
                                            ![w].write = commits + 1]
    /\ UNCHANGED <<_face_embeddings_cache, _cache_timestamp, clock, invalidated>>
    /\ ServerOnly

\* routes/faces.py, delete_person up to its query.
delete_person(w, name) ==
    /\ program \in {"server", "server_sequential"}
    /\ Scheduled(w)
    /\ requests[w].pc = "idle"
    /\ commits + Cardinality({v \in Workers : Writing(v)}) < MaxWrites
    /\ requests' = [requests EXCEPT ![w] =
           IF name \in registry
           THEN [IdleRequest EXCEPT !.op = "delete_person", !.name = name,
                                    !.pc = "delete"]
           ELSE [IdleRequest EXCEPT !.op = "delete_person", !.name = name,
                                    !.outcome = "not_found"]]
    /\ UNCHANGED <<registry, commits, _face_embeddings_cache, _cache_timestamp,
                   clock, invalidated>>
    /\ ServerOnly

\* delete_person's db.delete and db.commit; the row may be gone by now.
DeletePerson(w) ==
    /\ Scheduled(w)
    /\ requests[w].op = "delete_person"
    /\ requests[w].pc = "delete"
    /\ IF requests[w].name \notin registry
       THEN /\ requests' = [requests EXCEPT ![w] = Respond(w, "error", None)]
            /\ UNCHANGED <<registry, commits>>
       ELSE /\ registry' = registry \ {requests[w].name}
            /\ commits' = commits + 1
            /\ requests' = [requests EXCEPT ![w].pc = "invalidate_cache",
                                            ![w].write = commits + 1]
    /\ UNCHANGED <<_face_embeddings_cache, _cache_timestamp, clock, invalidated>>
    /\ ServerOnly

InvalidatedCache_Kept == _face_embeddings_cache

InvalidatedCache == None

\* invalidate_face_cache, its first assignment.
InvalidateCache(w) ==
    /\ Scheduled(w)
    /\ requests[w].pc = "invalidate_cache"
    /\ _face_embeddings_cache' = InvalidatedCache
    /\ requests' = [requests EXCEPT ![w].pc = "invalidate_timestamp"]
    /\ UNCHANGED <<registry, commits, _cache_timestamp, clock, invalidated>>
    /\ ServerOnly

\* invalidate_face_cache, its second assignment, and the handler's return.
InvalidateTimestamp(w) ==
    /\ Scheduled(w)
    /\ requests[w].pc = "invalidate_timestamp"
    /\ _cache_timestamp' = 0
    /\ invalidated' = IF requests[w].write > invalidated
                      THEN requests[w].write ELSE invalidated
    /\ requests' = [requests EXCEPT ![w] = Respond(w, "ok", None)]
    /\ UNCHANGED <<registry, commits, _face_embeddings_cache, clock>>
    /\ ServerOnly

\* match_face down to get_cached_embeddings' time.time().
match_face(w) ==
    /\ program \in {"server", "server_sequential"}
    /\ Scheduled(w)
    /\ requests[w].pc = "idle"
    /\ requests' = [requests EXCEPT ![w] =
           [IdleRequest EXCEPT !.op = "match_face", !.pc = "check_cache",
                               !.current_time = clock, !.since = invalidated]]
    /\ UNCHANGED <<registry, commits, _face_embeddings_cache, _cache_timestamp,
                   clock, invalidated>>
    /\ ServerOnly

\* get_cached_embeddings: _face_embeddings_cache is not None
CheckCache(w) ==
    /\ Scheduled(w)
    /\ requests[w].pc = "check_cache"
    /\ requests' = [requests EXCEPT ![w].pc =
           IF _face_embeddings_cache # None THEN "check_age" ELSE "load"]
    /\ UNCHANGED <<registry, commits, _face_embeddings_cache, _cache_timestamp,
                   clock, invalidated>>
    /\ ServerOnly

\* get_cached_embeddings: (current_time - _cache_timestamp) < 300
CheckAge(w) ==
    /\ Scheduled(w)
    /\ requests[w].pc = "check_age"
    /\ requests' = [requests EXCEPT
           ![w].seen_timestamp = _cache_timestamp,
           ![w].pc = IF IsFresh(requests[w].current_time, _cache_timestamp)
                     THEN "return_cached" ELSE "load"]
    /\ UNCHANGED <<registry, commits, _face_embeddings_cache, _cache_timestamp,
                   clock, invalidated>>
    /\ ServerOnly

\* get_cached_embeddings: return _face_embeddings_cache, the global as it is
\* now, from the branch that found the cache fresh.
ReturnCached(w) ==
    /\ Scheduled(w)
    /\ requests[w].pc = "return_cached"
    /\ requests' = [requests EXCEPT ![w] =
           Respond(w, "cached", _face_embeddings_cache)]
    /\ UNCHANGED <<registry, commits, _face_embeddings_cache, _cache_timestamp,
                   clock, invalidated>>
    /\ ServerOnly

\* get_cached_embeddings: persons = db.query(RegisteredPerson).all()
LoadAll(w) ==
    /\ Scheduled(w)
    /\ requests[w].pc = "load"
    /\ requests' = [requests EXCEPT ![w].persons = Snapshot(registry, commits),
                                    ![w].pc = "store_cache"]
    /\ UNCHANGED <<registry, commits, _face_embeddings_cache, _cache_timestamp,
                   clock, invalidated>>
    /\ ServerOnly

\* get_cached_embeddings: _face_embeddings_cache = {...}
StoreCache(w) ==
    /\ Scheduled(w)
    /\ requests[w].pc = "store_cache"
    /\ _face_embeddings_cache' = requests[w].persons
    /\ requests' = [requests EXCEPT ![w].pc = "store_timestamp"]
    /\ UNCHANGED <<registry, commits, _cache_timestamp, clock, invalidated>>
    /\ ServerOnly

\* get_cached_embeddings: _cache_timestamp = current_time
StoreTimestamp(w) ==
    /\ Scheduled(w)
    /\ requests[w].pc = "store_timestamp"
    /\ _cache_timestamp' = requests[w].current_time
    /\ requests' = [requests EXCEPT ![w].pc = "return_loaded"]
    /\ UNCHANGED <<registry, commits, _face_embeddings_cache, clock, invalidated>>
    /\ ServerOnly

\* get_cached_embeddings: return _face_embeddings_cache, after the load.
ReturnLoaded(w) ==
    /\ Scheduled(w)
    /\ requests[w].pc = "return_loaded"
    /\ requests' = [requests EXCEPT ![w] =
           Respond(w, "loaded", _face_embeddings_cache)]
    /\ UNCHANGED <<registry, commits, _face_embeddings_cache, _cache_timestamp,
                   clock, invalidated>>
    /\ ServerOnly

\* Time passes.
Tick(delay) ==
    /\ program \in {"server", "server_sequential"}
    /\ clock + delay <= StartTime + MaxUptime
    /\ clock' = clock + delay
    /\ UNCHANGED <<registry, commits, _face_embeddings_cache, _cache_timestamp,
                   requests, invalidated>>
    /\ ServerOnly

NextServer ==
    \/ \E w \in Workers, name \in Names : register_person(w, name)
    \/ \E w \in Workers, valid \in BOOLEAN : AddPerson(w, valid)
    \/ \E w \in Workers, name \in Names : delete_person(w, name)
    \/ \E w \in Workers : DeletePerson(w)
    \/ \E w \in Workers : InvalidateCache(w)
    \/ \E w \in Workers : InvalidateTimestamp(w)
    \/ \E w \in Workers : match_face(w)
    \/ \E w \in Workers : CheckCache(w)
    \/ \E w \in Workers : CheckAge(w)
    \/ \E w \in Workers : ReturnCached(w)
    \/ \E w \in Workers : LoadAll(w)
    \/ \E w \in Workers : StoreCache(w)
    \/ \E w \in Workers : StoreTimestamp(w)
    \/ \E w \in Workers : ReturnLoaded(w)
    \/ \E delay \in Delays : Tick(delay)

ServerStarted ==
    /\ registry = {}
    /\ commits = 0
    /\ _face_embeddings_cache = None
    /\ _cache_timestamp = 0
    /\ clock = StartTime
    /\ requests = [w \in Workers |-> IdleRequest]
    /\ invalidated = 0

InitServer ==
    /\ program = "server"
    /\ TrackerIdle /\ SystemIdle /\ DetectIdle /\ LogIdle /\ CallIdle
    /\ ServerStarted
    /\ CameraIdle /\ WebsocketIdle /\ loop = None

SpecServer == InitServer /\ [][NextServer]_vars

InitServerSequential ==
    /\ program = "server_sequential"
    /\ TrackerIdle /\ SystemIdle /\ DetectIdle /\ LogIdle /\ CallIdle
    /\ ServerStarted
    /\ CameraIdle /\ WebsocketIdle /\ loop = None

SpecServerSequential == InitServerSequential /\ [][NextServer]_vars

\* ------------------------------------------------------------------------
\* C21.  A register_person request whose query finds the name already in the
\* registry ends there with the outcome "rejected" (HTTP 400); the step adds
\* nothing to the registry and leaves _face_embeddings_cache and
\* _cache_timestamp as they were.  The same holds for a registration that
\* ends with any other refusal.
\* ------------------------------------------------------------------------
RegisterBegins(w) ==
    /\ requests[w].pc = "idle"
    /\ requests'[w] # requests[w]
    /\ requests'[w].op = "register_person"

RegisterRefused(w) ==
    /\ requests'[w] # requests[w]
    /\ requests'[w].op = "register_person"
    /\ requests'[w].pc = "idle"
    /\ requests'[w].outcome # "ok"

C21_DuplicateRejected ==
    [][\A w \in Workers :
        /\ (RegisterBegins(w) /\ requests'[w].name \in registry)
               => requests'[w].pc = "idle" /\ requests'[w].outcome = "rejected"
        /\ RegisterRefused(w)
               => /\ registry' = registry
                  /\ _face_embeddings_cache' = _face_embeddings_cache
                  /\ _cache_timestamp' = _cache_timestamp]_vars

\* C21 witness: Alice is registered, the cache holds a snapshot with her in
\* it, and a second registration of Alice has been rejected.
C21_Witness ==
    \E w \in Workers :
        /\ requests[w].op = "register_person"
        /\ requests[w].outcome = "rejected"
        /\ requests[w].name \in registry
        /\ _face_embeddings_cache # None
        /\ requests[w].name \in _face_embeddings_cache.names
        /\ _cache_timestamp = StartTime

\* ------------------------------------------------------------------------
\* C22.  With one request served at a time: when invalidate_face_cache
\* returns after a committed register_person or delete_person the cache is
\* None and its timestamp 0, so the next get_cached_embeddings loads; what a
\* match_face request gets from get_cached_embeddings is never None and is
\* the registry as of the last commit, also on the first call after the
\* start; and between requests a cache that is not None was loaded after
\* the last commit.
\* ------------------------------------------------------------------------
WriteCompletes(w) ==
    /\ requests[w].pc = "invalidate_timestamp"
    /\ requests'[w].pc = "idle"

MatchReturns(w) ==
    /\ requests[w].pc \in {"return_cached", "return_loaded"}
    /\ requests'[w].pc = "idle"

AtRest == \A w \in Workers : requests[w].pc = "idle"

C22_ReloadAfterWrite ==
    [][\A w \in Workers :
        /\ WriteCompletes(w)
               => _face_embeddings_cache' = None /\ _cache_timestamp' = 0
        /\ MatchReturns(w)
               => /\ requests'[w].returned # None
                  /\ requests'[w].returned = Snapshot(registry, commits)
        /\ (AtRest' /\ _face_embeddings_cache' # None)
               => _face_embeddings_cache' = Snapshot(registry', commits')]_vars

\* C22 witness: Alice was registered and deleted again, and the match_face
\* request that followed loaded the registry without her.
C22_Witness ==
    \E w \in Workers :
        /\ requests[w].op = "match_face"
        /\ requests[w].pc = "idle"
        /\ requests[w].outcome = "loaded"
        /\ requests[w].since = 2
        /\ requests[w].returned = Snapshot({}, 2)
        /\ commits = 2

\* ------------------------------------------------------------------------
\* C23.  With requests served concurrently: a match_face request that starts
\* after invalidate_face_cache has returned for a write gets a snapshot that
\* holds that write, and the cache never holds a snapshot older than a write
\* whose invalidation has returned.
\* ------------------------------------------------------------------------
C23_AtomicInvalidation ==
    [][/\ \A w \in Workers :
            (MatchReturns(w) /\ requests'[w].returned # None)
                => requests'[w].returned.version >= requests[w].since
       /\ _face_embeddings_cache' # None
            => _face_embeddings_cache'.version >= invalidated']_vars

\* ------------------------------------------------------------------------
\* C25.  With one request served at a time, get_cached_embeddings takes the
\* cached branch exactly when the cache is not None and the call's
\* current_time is less than 300 s after _cache_timestamp; what it then
\* returns is the cache, loaded after the last invalidation.  In every other
\* case it loads the registry and leaves _cache_timestamp at the call's
\* current_time.  A snapshot whose age is 300 s or more is never returned.
\* ------------------------------------------------------------------------
Moves(w, from, to) == requests[w].pc = from /\ requests'[w].pc = to

Leaves(w, from) == requests[w].pc = from /\ requests'[w].pc # from

Age(w) == requests[w].current_time - _cache_timestamp

frame_skip == 2
dedup_window == 30

Cameras == {"cam1", "cam2"}
MaxReads == 2
MaxStarts == 2
MaxVideoTime == 30
VideoDelays == {dedup_window - 1, dedup_window}

VideoProcessor(known_persons) ==
    [known_encodings |-> known_persons, known_persons |-> known_persons,
     last_detections |-> <<>>, frame_count |-> 0, stop_event |-> FALSE]

NoThread ==
    [pc |-> "none", reads |-> 0, frames |-> 0, count |-> 0, face |-> "none",
     current_time |-> 0, best_idx |-> 0, stop_signalled |-> FALSE,
     outcome |-> "none", person |-> "none", starts |-> 0, orphans |-> 0]

\* The thread goes back to the test of its while loop; outcome and person
\* say how the frame ended.
NextFrame(c, outcome, person) ==
    [NoThread EXCEPT !.pc = "test_stop", !.reads = streams[c].reads,
                     !.frames = streams[c].frames,
                     !.stop_signalled = streams[c].stop_signalled,
                     !.starts = streams[c].starts, !.orphans = streams[c].orphans,
                     !.outcome = outcome, !.person = person]

\* process_stream has left its loop.
Finished(c, outcome) ==
    [NoThread EXCEPT !.pc = "finished", !.reads = streams[c].reads,
                     !.frames = streams[c].frames,
                     !.stop_signalled = streams[c].stop_signalled,
                     !.starts = streams[c].starts, !.orphans = streams[c].orphans,
                     !.outcome = outcome]

\* The programs that run stream threads.
Streaming == program \in {"cameras", "reload"}

CamerasOnly ==
    UNCHANGED <<program, trackerVars, systemVars, detectVars, logVars, callVars,
                serverVars, websocketVars, loop>>

\* The thread of camera c is in process_stream.
InStream(c) == streams[c].pc \notin {"none", "finished"}

\* CameraManager.start_camera: a new thread, whatever became of the threads
\* started for this camera id before.  streams[c] follows the newest thread
\* of the id; an earlier thread that is still in its loop is counted in
\* orphans and not followed further: nothing but stop_event ends it.
start_camera(c) ==
    /\ Streaming
    /\ streams[c].starts < MaxStarts
    /\ c \notin active_streams
    /\ active_streams' = active_streams \cup {c}
    /\ streams' = [streams EXCEPT ![c] =
           [NoThread EXCEPT !.pc = "test_stop", !.reads = streams[c].reads,
                            !.frames = streams[c].frames,
                            !.starts = streams[c].starts + 1,
                            !.orphans = streams[c].orphans
                                          + (IF InStream(c) THEN 1 ELSE 0)]]
    /\ UNCHANGED <<video_processor, reloader, utcnow>>
    /\ CamerasOnly

\* CameraManager.stop_camera
stop_camera(c) ==
    /\ program = "cameras"
    /\ c \in active_streams
    /\ active_streams' = active_streams \ {c}
    /\ streams' = [streams EXCEPT ![c].stop_signalled = TRUE]
    /\ UNCHANGED <<video_processor, reloader, utcnow>>
    /\ CamerasOnly

\* CameraManager.stop_all
stop_all ==
    /\ program = "cameras"
    /\ active_streams # {}
    /\ video_processor' = [video_processor EXCEPT !.stop_event = TRUE]
    /\ active_streams' = {}
    /\ streams' = [c \in Cameras |->
                      [streams[c] EXCEPT !.stop_signalled =
                           streams[c].stop_signalled \/ c \in active_streams]]
    /\ UNCHANGED <<reloader, utcnow>>
    /\ CamerasOnly

\* process_stream: while not self.stop_event.is_set()
TestStop(c) ==
    /\ Streaming
    /\ streams[c].pc = "test_stop"
    /\ streams' = [streams EXCEPT ![c] =
           IF video_processor.stop_event THEN Finished(c, "stopped")
           ELSE [streams[c] EXCEPT !.pc = "read"]]
    /\ UNCHANGED <<video_processor, active_streams, reloader, utcnow>>
    /\ CamerasOnly

\* process_stream: ret, frame = cap.read()
Read(c, ret) ==
    /\ Streaming
    /\ streams[c].pc = "read"
    /\ streams[c].reads < MaxReads
    /\ streams' = [streams EXCEPT ![c] =
           IF ret
           THEN [streams[c] EXCEPT !.pc = "load_count", !.reads = @ + 1,
                                   !.frames = @ + 1, !.outcome = "none",
                                   !.person = "none"]
           ELSE [streams[c] EXCEPT !.pc = "sleep", !.reads = @ + 1,
                                   !.outcome = "read_failed", !.person = "none"]]
    /\ UNCHANGED <<video_processor, active_streams, reloader, utcnow>>
    /\ CamerasOnly

\* process_stream: time.sleep(1); continue
Sleep(c) ==
    /\ Streaming
    /\ streams[c].pc = "sleep"
    /\ streams' = [streams EXCEPT ![c].pc = "test_stop"]
    /\ UNCHANGED <<video_processor, active_streams, reloader, utcnow>>
    /\ CamerasOnly

\* process_frame: self.frame_count += 1, the read of the attribute
LoadCount(c) ==
    /\ Streaming
    /\ streams[c].pc = "load_count"
    /\ streams' = [streams EXCEPT ![c].count = video_processor.frame_count,
                                  ![c].pc = "store_count"]
    /\ UNCHANGED <<video_processor, active_streams, reloader, utcnow>>
    /\ CamerasOnly

\* process_frame: self.frame_count += 1, the write of the attribute
StoreCount(c) ==
    /\ Streaming
    /\ streams[c].pc = "store_count"
    /\ video_processor' = [video_processor EXCEPT !.frame_count = streams[c].count + 1]
    /\ streams' = [streams EXCEPT ![c].pc = "skip_test", ![c].count = 0]
    /\ UNCHANGED <<active_streams, reloader, utcnow>>
    /\ CamerasOnly

IsSkipped_PerCamera(c) == streams[c].frames % frame_skip # 0

\* process_frame: if self.frame_count % self.frame_skip != 0
IsSkipped(c) == video_processor.frame_count % frame_skip # 0

SkipTest(c) ==
    /\ Streaming
    /\ streams[c].pc = "skip_test"
    /\ streams' = [streams EXCEPT ![c] =
           IF IsSkipped(c) THEN NextFrame(c, "skipped", "none")
           ELSE [streams[c] EXCEPT !.pc = "detect"]]
    /\ UNCHANGED <<video_processor, active_streams, reloader, utcnow>>
    /\ CamerasOnly

Faces == {"none", "Alice", "Bob"}
FacesSeen == IF program = "reload" THEN {"Alice", "Bob"} ELSE {"none", "Alice"}

\* process_frame: detect_and_encode, and current_time = datetime.utcnow();
\* a frame shows at most one face.
Detect(c, face) ==
    /\ Streaming
    /\ streams[c].pc = "detect"
    /\ face \in FacesSeen
    /\ streams' = [streams EXCEPT ![c] =
           IF face = "none" THEN NextFrame(c, "no_face", "none")
           ELSE [streams[c] EXCEPT !.pc = "check_encodings", !.face = face,
                                   !.current_time = utcnow]]
    /\ UNCHANGED <<video_processor, active_streams, reloader, utcnow>>
    /\ CamerasOnly

\* _match_face: if not self.known_encodings: return None
CheckEncodings(c) ==
    /\ Streaming
    /\ streams[c].pc = "check_encodings"
    /\ streams' = [streams EXCEPT ![c] =
           IF video_processor.known_encodings = <<>>
           THEN NextFrame(c, "no_registry", "none")
           ELSE [streams[c] EXCEPT !.pc = "find_best"]]
    /\ UNCHANGED <<video_processor, active_streams, reloader, utcnow>>
    /\ CamerasOnly

\* find_best_match: the index of the encoding that matches the face, 0 for
\* Python's None.
BestIndex(known_encodings, face) ==
    IF \E i \in 1..Len(known_encodings) : known_encodings[i] = face
    THEN CHOOSE i \in 1..Len(known_encodings) :
             /\ known_encodings[i] = face
             /\ \A j \in 1..(i - 1) : known_encodings[j] # face
    ELSE 0

\* _match_face: find_best_match over self.known_encodings as it is now
FindBest(c) ==
    /\ Streaming
    /\ streams[c].pc = "find_best"
    /\ LET best_idx == BestIndex(video_processor.known_encodings, streams[c].face)
       IN  streams' = [streams EXCEPT ![c] =
               IF best_idx = 0 THEN NextFrame(c, "unknown", "none")
               ELSE [streams[c] EXCEPT !.pc = "get_person", !.best_idx = best_idx]]
    /\ UNCHANGED <<video_processor, active_streams, reloader, utcnow>>
    /\ CamerasOnly

\* _match_face: person = self.known_persons[best_idx]; an IndexError leaves
\* process_stream through its except clause.
GetPerson(c) ==
    /\ Streaming
    /\ streams[c].pc = "get_person"
    /\ streams' = [streams EXCEPT ![c] =
           IF streams[c].best_idx > Len(video_processor.known_persons)
           THEN Finished(c, "error")
           ELSE [streams[c] EXCEPT !.pc = "dedup",
                    !.person = video_processor.known_persons[streams[c].best_idx]]]
    /\ UNCHANGED <<video_processor, active_streams, reloader, utcnow>>
    /\ CamerasOnly

is_within_dedup_window_Inclusive(last_detection, current_time, window_seconds) ==
    current_time - last_detection <= window_seconds

\* utils/helpers.py
is_within_dedup_window(last_detection, current_time, window_seconds) ==
    current_time - last_detection < window_seconds

\* _match_face: the deduplication window, keyed by person and camera
Dedup(c) ==
    /\ Streaming
    /\ streams[c].pc = "dedup"
    /\ LET key == <<streams[c].person, c>>
           last == video_processor.last_detections
       IN  IF /\ key \in DOMAIN last
              /\ is_within_dedup_window(last[key], streams[c].current_time, dedup_window)
           THEN /\ streams' = [streams EXCEPT ![c] =
                       NextFrame(c, "deduplicated", streams[c].person)]
                /\ UNCHANGED video_processor
           ELSE /\ streams' = [streams EXCEPT ![c] =
                       NextFrame(c, "matched", streams[c].person)]
                /\ video_processor' = [video_processor EXCEPT !.last_detections =
                       [k \in DOMAIN last \cup {key} |->
                           IF k = key THEN streams[c].current_time ELSE last[k]]]
    /\ UNCHANGED <<active_streams, reloader, utcnow>>
    /\ CamerasOnly

\* Time passes.
Advance(delay) ==
    /\ program = "cameras"
    /\ utcnow + delay <= MaxVideoTime
    /\ utcnow' = utcnow + delay
    /\ UNCHANGED <<video_processor, active_streams, streams, reloader>>
    /\ CamerasOnly

NextStreams ==
    \/ \E c \in Cameras : start_camera(c)
    \/ \E c \in Cameras : TestStop(c)
    \/ \E c \in Cameras, ret \in BOOLEAN : Read(c, ret)
    \/ \E c \in Cameras : Sleep(c)
    \/ \E c \in Cameras : LoadCount(c)
    \/ \E c \in Cameras : StoreCount(c)
    \/ \E c \in Cameras : SkipTest(c)
    \/ \E c \in Cameras, face \in Faces : Detect(c, face)
    \/ \E c \in Cameras : CheckEncodings(c)
    \/ \E c \in Cameras : FindBest(c)
    \/ \E c \in Cameras : GetPerson(c)
    \/ \E c \in Cameras : Dedup(c)

NextCameras ==
    \/ NextStreams
    \/ \E c \in Cameras : stop_camera(c)
    \/ stop_all
    \/ \E delay \in VideoDelays : Advance(delay)

InitCameras ==
    /\ program = "cameras"
    /\ TrackerIdle /\ SystemIdle /\ DetectIdle /\ LogIdle /\ CallIdle
    /\ ServerIdle /\ WebsocketIdle /\ loop = None
    /\ video_processor = VideoProcessor(<<"Alice">>)
    /\ active_streams = {}
    /\ streams = [c \in Cameras |-> NoThread]
    /\ reloader = None
    /\ utcnow = 0

SpecCameras == InitCameras /\ [][NextCameras]_vars

\* ------------------------------------------------------------------------
\* C26.  Each camera is a pipeline of its own: whether a frame of camera c
\* is skipped depends only on how many frames camera c has read, whatever
\* the other cameras do meanwhile, and a deduplication decision of camera c
\* reads and writes only camera c's entries of last_detections.
\* ------------------------------------------------------------------------
StreamLeaves(c, from) == streams[c].pc = from /\ streams'[c].pc # from

OtherCameraKeys(c, last) == {k \in DOMAIN last : k[2] # c}

C26_IndependentPipelines ==
    [][\A c \in Cameras :
        /\ StreamLeaves(c, "skip_test") =>
               (streams'[c].outcome = "skipped" <=> IsSkipped_PerCamera(c))
        /\ StreamLeaves(c, "dedup") =>
               /\ OtherCameraKeys(c, video_processor'.last_detections)
                      = OtherCameraKeys(c, video_processor.last_detections)
               /\ \A k \in OtherCameraKeys(c, video_processor.last_detections) :
                      video_processor'.last_detections[k]
                          = video_processor.last_detections[k]]_vars

\* ------------------------------------------------------------------------
\* C27.  Once stop_camera(c) has been called, the stream loop of camera c
\* ends at its next loop test, so it reads no frame after the one in hand;
\* the loop of a camera that was not stopped goes on reading.
\* ------------------------------------------------------------------------
C27_StopsBetweenFrames ==
    [][\A c \in Cameras :
        StreamLeaves(c, "test_stop") =>
            IF streams[c].stop_signalled
            THEN streams'[c].pc = "finished"
            ELSE streams'[c].pc = "read"]_vars

\* ------------------------------------------------------------------------
\* VideoProcessor.reload_persons, called by the request thread of
\* api/main.py after a registration or a deletion while the stream threads
\* run.
\* ------------------------------------------------------------------------
InitialPersons == <<"Alice", "Bob">>
ReloadLists == {<<"Alice", "Bob", "Carol">>, <<"Bob", "Carol">>}

IdleReloader == [pc |-> "idle", persons |-> InitialPersons, i |-> 0,
                 before |-> InitialPersons]

ReloadOnly ==
    /\ UNCHANGED <<active_streams, streams, utcnow>>
    /\ CamerasOnly

\* reload_persons(persons), the call
reload_persons(persons) ==
    /\ program = "reload"
    /\ reloader.pc = "idle"
    /\ reloader' = [pc |-> "reset_encodings", persons |-> persons, i |-> 1,
                    before |-> video_processor.known_persons]
    /\ UNCHANGED video_processor
    /\ ReloadOnly

\* _load_known_persons: self.known_encodings = []
ResetEncodings ==
    /\ program = "reload"
    /\ reloader.pc = "reset_encodings"
    /\ video_processor' = [video_processor EXCEPT !.known_encodings = <<>>]
    /\ reloader' = [reloader EXCEPT !.pc = "reset_persons"]
    /\ ReloadOnly

\* _load_known_persons: self.known_persons = []
ResetPersons ==
    /\ program = "reload"
    /\ reloader.pc = "reset_persons"
    /\ video_processor' = [video_processor EXCEPT !.known_persons = <<>>]
    /\ reloader' = [reloader EXCEPT !.pc = "append_encoding"]
    /\ ReloadOnly

\* _load_known_persons: self.known_encodings.append(encoding)
AppendEncoding ==
    /\ program = "reload"
    /\ reloader.pc = "append_encoding"
    /\ video_processor' = [video_processor EXCEPT !.known_encodings =
           Append(@, reloader.persons[reloader.i])]
    /\ reloader' = [reloader EXCEPT !.pc = "append_person"]
    /\ ReloadOnly

\* _load_known_persons: self.known_persons.append(person), and the next
\* turn of the for loop
AppendPerson ==
    /\ program = "reload"
    /\ reloader.pc = "append_person"
    /\ video_processor' = [video_processor EXCEPT !.known_persons =
           Append(@, reloader.persons[reloader.i])]
    /\ reloader' = [reloader EXCEPT
           !.pc = IF reloader.i = Len(reloader.persons) THEN "done"
                  ELSE "append_encoding",
           !.i = @ + 1]
    /\ ReloadOnly

NextReload ==
    \/ NextStreams
    \/ \E persons \in ReloadLists : reload_persons(persons)
    \/ ResetEncodings
    \/ ResetPersons
    \/ AppendEncoding
    \/ AppendPerson

InitReload ==
    /\ program = "reload"
    /\ TrackerIdle /\ SystemIdle /\ DetectIdle /\ LogIdle /\ CallIdle
    /\ ServerIdle /\ WebsocketIdle /\ loop = None
    /\ video_processor = VideoProcessor(InitialPersons)
    /\ active_streams = {}
    /\ streams = [c \in Cameras |-> NoThread]
    /\ reloader = IdleReloader
    /\ utcnow = 0

SpecReload == InitReload /\ [][NextReload]_vars

\* ------------------------------------------------------------------------
\* C24.  While a stream thread runs, known_encodings and known_persons name
\* the same persons at the same indices and are together either the
\* registry from before the reload or the registry given to the reload; the
\* person the matcher takes from known_persons is the one whose encoding
\* matched the face.
\* ------------------------------------------------------------------------
MatcherRuns == \E c \in Cameras : streams[c].pc \notin {"none", "finished"}

C24_NoPartialRegistry ==
    [][/\ MatcherRuns' =>
            /\ video_processor'.known_encodings = video_processor'.known_persons
            /\ video_processor'.known_persons \in {reloader'.before, reloader'.persons}
       /\ \A c \in Cameras :
            StreamLeaves(c, "get_person") =>
                /\ streams'[c].pc = "dedup"
                /\ streams'[c].person = streams[c].face]_vars

\* ------------------------------------------------------------------------
\* The frame loops run as a whole: VideoAnalyticsSystem.run of main.py
\* (program "run") and the while loop of detect.py (program "detect_loop"),
\* with the read failures and the sink failures of each; the third loop,
\* process_stream, is the stream thread above.
\* ------------------------------------------------------------------------

\* run: "if not ret: print(...); break"
RunReadFailed ==
    /\ InLoop("run", "run")
    /\ frame_count < FrameBound
    /\ scene' = [scene EXCEPT !.camera = FALSE]
    /\ loop' = Stopped({})
    /\ UNCHANGED <<program, trackerVars, systemVars, detectVars, callVars, events,
                   history, serverVars, cameraVars, websocketVars>>

\* run: "if key == ord('q'): break"
RunQuit ==
    /\ InLoop("run", "run")
    /\ scene.camera
    /\ frame_count < FrameBound
    /\ loop' = Stopped(loop.delivered)
    /\ UNCHANGED <<program, trackerVars, systemVars, detectVars, callVars, logVars,
                   serverVars, cameraVars, websocketVars>>

InitRun ==
    /\ program = "run"
    /\ TrackerIdle /\ DetectIdle /\ CallIdle /\ ServerIdle /\ CameraIdle /\ WebsocketIdle
    /\ person_tracker = BoTSORTTracker(PersonMaxAge, SystemMinHits, SystemIouThreshold)
    /\ phone_tracker = BoTSORTTracker(PhoneMaxAge, SystemMinHits, SystemIouThreshold)
    /\ tracked_persons = <<>>
    /\ tracked_phones = <<>>
    /\ frame_count = 0
    /\ backend = Backend("ok", Registered)
    /\ events = {}
    /\ history = <<>>
    /\ scene = Scene(TRUE, <<>>, <<>>, "no_face")
    /\ loop = Looping({})

InitDetectLoop ==
    /\ program = "detect_loop"
    /\ TrackerIdle /\ SystemIdle /\ CallIdle /\ ServerIdle /\ CameraIdle /\ WebsocketIdle
    /\ timestamp = StartTime
    /\ person_map = <<>>
    /\ known_embeddings = <<EmbAlice, EmbBob>>
    /\ known_names = <<"Alice", "Bob">>
    /\ events = {}
    /\ history = <<>>
    /\ scene = EmptyRoom
    /\ loop = Looping({})

InitFrameLoops == InitRun \/ InitDetectLoop \/ InitCameras

NextFrameLoops ==
    \/ ProcessFrame
    \/ RunReadFailed
    \/ RunQuit
    \/ DetectFrame
    \/ DetectReadFailed
    \/ DetectPublishFailed
    \/ NextCameras

SpecFrameLoops == InitFrameLoops /\ [][NextFrameLoops]_vars

\* ------------------------------------------------------------------------
\* C28.  In each of the three frame loops a failed cap.read() leaves the
\* loop running and its track state as it was, and the loop reads again
\* after its fixed delay.
\* ------------------------------------------------------------------------
RunReadFails == program = "run" /\ loop.running /\ scene.camera /\ ~scene'.camera

DetectReadFails == program = "detect_loop" /\ timestamp' # timestamp /\ ~scene'.camera

StreamReadFails(c) ==
    /\ program = "cameras"
    /\ StreamLeaves(c, "read")
    /\ streams'[c].outcome = "read_failed"

C28_ReadFailureNotFatal ==
    [][/\ RunReadFails =>
            /\ loop'.running
            /\ tracked_persons' = tracked_persons
            /\ person_tracker' = person_tracker
       /\ DetectReadFails =>
            /\ loop'.running
            /\ person_map' = person_map
            /\ timestamp' = timestamp + 1
       /\ program = "cameras" =>
            \A c \in Cameras :
                /\ StreamReadFails(c) =>
                       /\ streams'[c].pc = "sleep"
                       /\ video_processor' = video_processor
                /\ StreamLeaves(c, "sleep") => streams'[c].pc = "test_stop"]_vars

\* ------------------------------------------------------------------------
\* C29.  When an event of a frame does not reach the sink, the frame loop
\* goes on, and the state of the tracks after the frame is what the frame
\* gives when every event is delivered.
\* ------------------------------------------------------------------------
RunPublishFails ==
    program = "run" /\ frame_count' # frame_count /\ loop'.delivered # events'

DetectPublishFails ==
    /\ program = "detect_loop"
    /\ timestamp' # timestamp
    /\ scene'.camera
    /\ loop'.delivered # events'

C29_PublishFailureIgnored ==
    [][/\ RunPublishFails =>
            /\ loop'.running
            /\ \A tid \in DOMAIN tracked_persons' :
                   tracked_persons'[tid]
                       = ProcessPerson(tracked_persons, tid, scene'.faces).p
       /\ DetectPublishFails =>
            /\ loop'.running
            /\ person_map'
                 = DetectResult(person_map, history, scene', timestamp').person_map]_vars

\* ------------------------------------------------------------------------
\* C30.  In process_frame every frame of a track adds one to its
\* frames_tracked, and face detection is attempted on the track in that
\* frame (attempt_count goes up by one) exactly when the track was undecided
\* before the frame and the new frames_tracked is 1 modulo
\* face_detection_interval; so the first frame of a track is an attempt, two
\* attempts are face_detection_interval frames apart, and a decided track is
\* never attempted again.
\* ------------------------------------------------------------------------
Before(tid) ==
    IF tid \in DOMAIN tracked_persons THEN tracked_persons[tid] ELSE NewTrackedPerson

Attempted(tid) == tracked_persons'[tid].attempt_count = Before(tid).attempt_count + 1

NotAttempted(tid) == tracked_persons'[tid].attempt_count = Before(tid).attempt_count

C30_SampledAttempts ==
    [][\A tid \in DOMAIN tracked_persons' :
        /\ tracked_persons'[tid].frames_tracked = Before(tid).frames_tracked + 1
        /\ Attempted(tid) \/ NotAttempted(tid)
        /\ Attempted(tid) <=>
               /\ ~Before(tid).identification_complete
               /\ tracked_persons'[tid].frames_tracked % face_detection_interval = 1
        /\ tid \notin DOMAIN tracked_persons => Attempted(tid)]_vars

\* C30 witness: a track decided at its first frame is at its eleventh frame,
\* a frame of the sampling pattern, and still has one attempt.
C30_Witness ==
    \E tid \in DOMAIN tracked_persons :
        /\ tracked_persons[tid].identification_complete
        /\ tracked_persons[tid].frames_tracked = face_detection_interval + 1
        /\ tracked_persons[tid].attempt_count = 1

\* ------------------------------------------------------------------------
\* C31  On a sampled frame for which no face is found in the track's region,
\* the track's no-face counter is incremented by one and the track's
\* identity (name, confidence) and its face_detected_count are left
\* unchanged.
\* ------------------------------------------------------------------------
NoFaceFound(tid) == Attempted(tid) /\ scene'.faces = "no_face"

\* the last chance of the no-face branch: "in frame for VERY long without
\* ANY face detection"
LongWithoutFace(tid) ==
    /\ tracked_persons'[tid].frames_tracked >= grace_period_frames * 2
    /\ Before(tid).face_detected_count = 0

\* C31 as claimed: a sampled frame without a face adds one to no_face_count
\* and leaves name, confidence and face_detected_count as they were.
C31_Original ==
    [][\A tid \in DOMAIN tracked_persons' :
        NoFaceFound(tid) =>
            /\ tracked_persons'[tid].no_face_count = Before(tid).no_face_count + 1
            /\ tracked_persons'[tid].name = Before(tid).name
            /\ tracked_persons'[tid].confidence = Before(tid).confidence
            /\ tracked_persons'[tid].face_detected_count
                   = Before(tid).face_detected_count]_vars

\* C31 as amended: a sampled frame without a face adds one to no_face_count,
\* leaves confidence and face_detected_count as they were and never names a
\* registered person; the name is left as it was unless the track has reached
\* twice the grace period without any face ever detected, in which case the
\* track becomes Unknown in that frame and an unauthorized event is sent.
C31_NoFaceCounted ==
    [][\A tid \in DOMAIN tracked_persons' :
        NoFaceFound(tid) =>
            /\ tracked_persons'[tid].no_face_count = Before(tid).no_face_count + 1
            /\ tracked_persons'[tid].confidence = Before(tid).confidence
            /\ tracked_persons'[tid].face_detected_count
                   = Before(tid).face_detected_count
            /\ IF LongWithoutFace(tid)
               THEN /\ tracked_persons'[tid].name = "Unknown"
                    /\ tracked_persons'[tid].identification_complete
                    /\ Sent(events', "unauthorized", tid)
               ELSE /\ tracked_persons'[tid].name = Before(tid).name
                    /\ tracked_persons'[tid].identification_complete
                           = Before(tid).identification_complete
                    /\ PersonEvents(events') = {}]_vars

\* C31 witness: a track whose face was seen twice and matched nobody has been
\* sampled four times without a face and is still undecided, past twice the
\* grace period.
C31_Witness ==
    \E tid \in DOMAIN tracked_persons :
        /\ tracked_persons[tid].face_detected_count = 2
        /\ tracked_persons[tid].no_face_count >= 4
        /\ tracked_persons[tid].name = "None"
        /\ tracked_persons[tid].frames_tracked > grace_period_frames * 2

(***************************************************************************)
(* Both identity pipelines started without a usable registry: main.py with *)
(* a matching service that raises, answers with an error status or has     *)
(* nobody registered; detect.py after load_faces found no users.           *)
(***************************************************************************)
Unusable ==
    {Backend("exception", Registered), Backend("error", Registered), Backend("ok", {})}

InitSystemFallback ==
    /\ program = "system"
    /\ TrackerIdle /\ DetectIdle /\ CallIdle /\ ServicesIdle
    /\ person_tracker = BoTSORTTracker(PersonMaxAge, SystemMinHits, SystemIouThreshold)
    /\ phone_tracker = BoTSORTTracker(PhoneMaxAge, SystemMinHits, SystemIouThreshold)
    /\ tracked_persons = <<>>
    /\ tracked_phones = <<>>
    /\ frame_count = 0
    /\ backend \in Unusable
    /\ events = {}
    /\ history = <<>>
    /\ scene = Scene(TRUE, <<>>, <<>>, "no_face")

InitDetectFallback ==
    /\ program = "detect"
    /\ TrackerIdle /\ SystemIdle /\ CallIdle /\ ServicesIdle
    /\ timestamp = StartTime
    /\ person_map = <<>>
    /\ known_embeddings = <<>>
    /\ known_names = <<>>
    /\ events = {}
    /\ history = <<>>
    /\ scene = EmptyRoom

InitFallback == InitSystemFallback \/ InitDetectFallback

SpecFallback == InitFallback /\ [][NextPipelines]_vars

\* ------------------------------------------------------------------------
\* C32  If the registry is empty or the matching service is unreachable,
\* identity resolution returns no match for every embedding without
\* raising, so no track ever becomes Authorized, while the tracker's output
\* (track ids and boxes) for any detection sequence is what it is with a
\* reachable registry: the result of update on the tracker's own state and
\* the detections of the frame, whatever faces are seen.
\* ------------------------------------------------------------------------
NeverAuthorized ==
    /\ \A tid \in DOMAIN tracked_persons :
          tracked_persons[tid].name \in {"None", "Unknown"}
    /\ \A tid \in DOMAIN person_map : person_map[tid].name = "Unknown"
    /\ \A e \in events : e.event_type # "entry" /\ e.user_name \notin Registered

TrackedAsDetected ==
    frame_count' # frame_count =>
        LET persons == update(person_tracker, scene'.persons)
            phones == update(phone_tracker, scene'.phones)
        IN  /\ person_tracker' = persons.self
            /\ phone_tracker' = phones.self
            /\ DOMAIN tracked_persons' = DOMAIN persons.ret
            /\ DOMAIN tracked_phones' = DOMAIN phones.ret

C32_AlwaysUnknown == []NeverAuthorized /\ [][TrackedAsDetected]_vars

\* C32 witness: Alice, who is registered, has shown her face six times to a
\* system whose matching service raises, and her track has become Unknown.
C32_Witness ==
    \E tid \in DOMAIN tracked_persons :
        /\ backend.answers = "exception"
        /\ scene.faces = "Alice"
        /\ tracked_persons[tid].face_detected_count = 6
        /\ tracked_persons[tid].name = "Unknown"

\* ------------------------------------------------------------------------
\* C33  In process_frame every person track that stays continuously tracked
\* eventually leaves Identifying (becomes Authorized or Unknown) after a
\* bounded number of frames, whatever the face-detection outcomes, also
\* when its face is detected at least once but fewer than min_face_attempts
\* times and then never again.  The number of frames is the largest the
\* code's tests name: no track is still Identifying after its first sampled
\* frame past twice the grace period.
\* ------------------------------------------------------------------------
C33_DecidedInTime ==
    \A tid \in DOMAIN tracked_persons :
        tracked_persons[tid].frames_tracked > grace_period_frames * 2
            => tracked_persons[tid].identification_complete

\* Why no larger number of frames is enough either: a track whose face was
\* detected stays Identifying, with the same face_detected_count, in every
\* frame in which no face is detected, whatever its frames_tracked.
SeenTooSeldomStaysIdentifying ==
    [][\A tid \in DOMAIN tracked_persons \cap DOMAIN tracked_persons' :
        (/\ ~tracked_persons[tid].identification_complete
         /\ tracked_persons[tid].face_detected_count > 0
         /\ scene'.faces = "no_face")
            => /\ ~tracked_persons'[tid].identification_complete
               /\ tracked_persons'[tid].face_detected_count
                      = tracked_persons[tid].face_detected_count]_vars

\* ------------------------------------------------------------------------
\* C34  In the detect.py loop every exit event emitted for a track is
\* preceded by an entry event emitted for the same track with the same
\* name: no execution logs an exit for a person whose entry was never
\* logged.
\* ------------------------------------------------------------------------
C34_ExitAfterEntry ==
    [][\A e \in events' :
        e.event_type = "exit"
            => /\ e.track_id \in DOMAIN history
               /\ history[e.track_id].entry >= 1
               /\ e.user_name = person_map[e.track_id].name]_vars

\* ------------------------------------------------------------------------
\* C35  After every process_frame the key set of tracked_persons equals the
\* set of person track ids the person tracker returned in that frame, and
\* the key set of tracked_phones equals the set of phone track ids returned
\* in that frame: no per-track state is kept for a track the tracker has
\* dropped, and every returned track has state.
\* ------------------------------------------------------------------------
C35_StateForReturnedTracks ==
    [][frame_count' # frame_count =>
        /\ DOMAIN tracked_persons' = DOMAIN update(person_tracker, scene'.persons).ret
        /\ DOMAIN tracked_phones' = DOMAIN update(phone_tracker, scene'.phones).ret]_vars

\* C35 witness: the person tracker and the phone tracker have each returned
\* a track for some frames and then dropped it, and a second phone track is
\* returned now: nothing is kept of the dropped tracks.
C35_Witness ==
    /\ program = "system"
    /\ person_tracker.next_id = 2
    /\ person_tracker.tracks = <<>>
    /\ tracked_persons = <<>>
    /\ phone_tracker.next_id = 3
    /\ DOMAIN tracked_phones = {2}

\* ------------------------------------------------------------------------
\* C36  In process_frame the phone-detection log is sent exactly once per
\* phone track id over the lifetime of that track, however many frames the
\* phone stays tracked and whether or not it is matched in each frame: it
\* is sent in the frame in which the phone tracker creates the id, for every
\* id it creates, and in no other frame; an id is never created twice.
\* ------------------------------------------------------------------------
PhoneLogged(tid) == Sent(events', "phone_detected", tid)

C36_PhoneLoggedOnce ==
    [][frame_count' # frame_count =>
        /\ \A e \in events' :
              e.event_type = "phone_detected" => e.track_id \in DOMAIN phone_tracker'.tracks
        /\ \A tid \in DOMAIN phone_tracker'.tracks :
              /\ PhoneLogged(tid) <=> tid \notin DOMAIN phone_tracker.tracks
              /\ tid \notin DOMAIN phone_tracker.tracks => tid >= phone_tracker.next_id
              /\ tid < phone_tracker'.next_id
              /\ tid \in DOMAIN tracked_phones'
              /\ tracked_phones'[tid].logged]_vars

\* C36 witness: a phone track logged at frame 1 was matched for eleven
\* frames, has been unmatched for ten, is still tracked, and nothing is
\* logged for it in this frame.
C36_Witness ==
    /\ program = "system"
    /\ 1 \in DOMAIN tracked_phones
    /\ tracked_phones[1].first_seen = 1
    /\ phone_tracker.tracks[1].hits = 11
    /\ phone_tracker.tracks[1].age = 10
    /\ events = {}

(***************************************************************************)
(* VideoProcessor._match_face called for one frame after the other, as a   *)
(* camera's thread calls it, for faces of two known persons and of a       *)
(* stranger on two cameras, at times that reach past two windows.          *)
(***************************************************************************)
MaxDedupTime == 60
DedupDelays == {0, dedup_window - 1, dedup_window}
DedupFaces == {"Alice", "Bob", "Carol"}

Unmatched == [matched |-> FALSE, person |-> "none"]

Matched(person) == [matched |-> TRUE, person |-> person]

\* the new start of the window of a reported match
Reported(last, key, current_time) ==
    [k \in DOMAIN last \cup {key} |-> IF k = key THEN current_time ELSE last[k]]

\* VideoProcessor._match_face as one call: the object after it and what it
\* returned
_match_face(self, face_encoding, camera_id, current_time) ==
    LET best_idx == BestIndex(self.known_encodings, face_encoding)
        person == self.known_persons[best_idx]
        last_detection_key == <<person, camera_id>>
        last == self.last_detections
    IN  IF self.known_encodings = <<>> THEN [self |-> self, ret |-> None]
        ELSE IF best_idx = 0 THEN [self |-> self, ret |-> Unmatched]
        ELSE IF /\ last_detection_key \in DOMAIN last
                /\ is_within_dedup_window(last[last_detection_key], current_time,
                                          dedup_window)
        THEN [self |-> self, ret |-> None]
        ELSE [self |-> [self EXCEPT !.last_detections =
                           Reported(last, last_detection_key, current_time)],
              ret |-> Matched(person)]

InitMatchFace ==
    /\ program = "match_face"
    /\ TrackerIdle /\ SystemIdle /\ DetectIdle /\ LogIdle
    /\ ServerIdle /\ WebsocketIdle /\ loop = None
    /\ video_processor = VideoProcessor(<<"Alice", "Bob">>)
    /\ active_streams = {}
    /\ streams = <<>>
    /\ reloader = None
    /\ utcnow = 0
    /\ args = <<>>
    /\ result = Pending

\* process_frame for a frame with one face: current_time = datetime.utcnow()
\* and the call of _match_face
CallMatchFace ==
    /\ program = "match_face"
    /\ \E delay \in DedupDelays, face \in DedupFaces, c \in Cameras :
        LET current_time == utcnow + delay
            r == _match_face(video_processor, face, c, current_time)
        IN  /\ current_time <= MaxDedupTime
            /\ utcnow' = current_time
            /\ args' = [face_encoding |-> face, camera_id |-> c,
                        current_time |-> current_time]
            /\ video_processor' = r.self
            /\ result' = Returned(r.ret)
    /\ UNCHANGED <<program, trackerVars, systemVars, detectVars, logVars, serverVars,
                   active_streams, streams, reloader, websocketVars, loop>>

NextMatchFace == CallMatchFace

SpecMatchFace == InitMatchFace /\ [][NextMatchFace]_vars

\* ------------------------------------------------------------------------
\* C37  For each (person, camera) pair _match_face reports a match at most
\* once per dedup_window seconds: after a reported match at time t, every
\* match of the same person on the same camera at a time t2 with
\* t2 - t < dedup_window returns None and does not move the start of the
\* window, a match at t2 - t >= dedup_window is reported, and matches of
\* another person or on another camera are never suppressed by it.
\* ------------------------------------------------------------------------
\* the start of the window of a (person, camera) pair is the time of its
\* last reported match
LastReported == video_processor.last_detections

C37_OncePerWindow ==
    [][program = "match_face" /\ result'.done /\ args'.face_encoding \in {"Alice", "Bob"} =>
        LET key == <<args'.face_encoding, args'.camera_id>>
            t2 == args'.current_time
        IN  IF key \in DOMAIN LastReported /\ t2 - LastReported[key] < dedup_window
            THEN /\ result'.value = None
                 /\ LastReported' = LastReported
            ELSE /\ result'.value = Matched(args'.face_encoding)
                 /\ DOMAIN LastReported' = DOMAIN LastReported \cup {key}
                 /\ LastReported'[key] = t2
                 /\ \A k \in DOMAIN LastReported \ {key} :
                       LastReported'[k] = LastReported[k]]_vars

\* C37 witness: Alice was reported on cam1 at time 0 and is suppressed there
\* now, at 29, after Bob on cam1 and Alice on cam2 were reported at 29.
C37_Witness ==
    /\ program = "match_face"
    /\ result.done
    /\ utcnow = dedup_window - 1
    /\ args.face_encoding = "Alice" /\ args.camera_id = "cam1"
    /\ result.value = None
    /\ DOMAIN LastReported = {<<"Alice", "cam1">>, <<"Bob", "cam1">>, <<"Alice", "cam2">>}
    /\ LastReported[<<"Alice", "cam1">>] = 0
    /\ LastReported[<<"Bob", "cam1">>] = dedup_window - 1
    /\ LastReported[<<"Alice", "cam2">>] = dedup_window - 1

\* ------------------------------------------------------------------------
\* C38  For any sequence of CameraManager.start_camera, stop_camera and
\* stop_all calls, at most one stream thread per camera id is reading
\* frames at any time, active_streams contains exactly the camera ids whose
\* stream thread is running, and a camera started after stop_all processes
\* frames.  A thread counts as running while it is in process_stream and
\* stop_event is not set; that a started camera processes frames is stated
\* as: a thread leaves its loop only after a stop call made for it.
\* ------------------------------------------------------------------------
RunningThreads(c) ==
    IF video_processor.stop_event THEN 0
    ELSE streams[c].orphans + (IF InStream(c) THEN 1 ELSE 0)

OneThreadPerCamera == \A c \in Cameras : RunningThreads(c) <= 1

ActiveAreRunning ==
    \A c \in Cameras : c \in active_streams <=> RunningThreads(c) >= 1

StartedCameraRuns ==
    \A c \in Cameras :
        (streams[c].pc = "finished" /\ streams[c].outcome = "stopped")
            => streams[c].stop_signalled

C38_OneThreadPerActiveCamera ==
    program = "cameras" => OneThreadPerCamera /\ ActiveAreRunning /\ StartedCameraRuns

(***************************************************************************)
(* routes/websocket.py: the ConnectionManager of the backend.  Everything  *)
(* runs on one event loop, so a coroutine runs alone from one await to the *)
(* next; the awaits are websocket.accept(), websocket.receive_text() and   *)
(* connection.send_json(message).  Each websocket connects once and may be *)
(* closed by its client at any time; each broadcast is called once.        *)
(***************************************************************************)
Sockets == {"ws1", "ws2"}
Broadcasts == {1, 2}

ConnectionManager == [active_connections |-> <<>>]

\* a websocket and its websocket_endpoint coroutine
NewSocket == [open |-> TRUE, pc |-> "new", received |-> {}]

NoBroadcast ==
    [pc |-> "idle", index |-> 0, connection |-> "none", disconnected |-> <<>>,
     audience |-> {}]

Contains(list, x) == \E k \in 1..Len(list) : list[k] = x

\* list.remove(x): the list without the first x, or ValueError
remove(list, x) ==
    IF Contains(list, x)
    THEN [raised |-> FALSE, list |-> RemoveFirst(list, x)]
    ELSE [raised |-> TRUE, list |-> list]

WebsocketOnly ==
    UNCHANGED <<program, trackerVars, systemVars, detectVars, logVars, callVars,
                serverVars, cameraVars, loop>>

\* websocket_endpoint is called: connect awaits websocket.accept()
Accept(ws) ==
    /\ program = "websocket"
    /\ websockets[ws].pc = "new"
    /\ websockets' = [websockets EXCEPT ![ws].pc = "accepting"]
    /\ UNCHANGED <<manager, broadcasts>>
    /\ WebsocketOnly

\* connect after the await: self.active_connections.append(websocket), and
\* the endpoint awaits receive_text(); accept() on a connection the client
\* has closed raises, and the endpoint ends without having appended
Connected(ws) ==
    /\ program = "websocket"
    /\ websockets[ws].pc = "accepting"
    /\ IF websockets[ws].open
       THEN /\ manager' = [manager EXCEPT !.active_connections = Append(@, ws)]
            /\ websockets' = [websockets EXCEPT ![ws].pc = "receiving"]
       ELSE /\ websockets' = [websockets EXCEPT ![ws].pc = "ended"]
            /\ UNCHANGED manager
    /\ UNCHANGED broadcasts
    /\ WebsocketOnly

\* the client goes away
Close(ws) ==
    /\ program = "websocket"
    /\ websockets[ws].pc # "new"
    /\ websockets[ws].open
    /\ websockets' = [websockets EXCEPT ![ws].open = FALSE]
    /\ UNCHANGED <<manager, broadcasts>>
    /\ WebsocketOnly

\* receive_text() raises WebSocketDisconnect: manager.disconnect(websocket)
Disconnect(ws) ==
    /\ program = "websocket"
    /\ websockets[ws].pc = "receiving"
    /\ ~websockets[ws].open
    /\ LET r == remove(manager.active_connections, ws)
       IN  /\ manager' = [manager EXCEPT !.active_connections = r.list]
           /\ websockets' = [websockets EXCEPT ![ws].pc =
                                 IF r.raised THEN "raised" ELSE "ended"]
    /\ UNCHANGED broadcasts
    /\ WebsocketOnly

\* "for conn in disconnected: self.active_connections.remove(conn)", which
\* ends at the first remove that raises
RECURSIVE Prune(_, _, _)
Prune(list, disconnected, k) ==
    IF k > Len(disconnected) THEN [raised |-> FALSE, list |-> list]
    ELSE LET r == remove(list, disconnected[k])
         IN  IF r.raised THEN r ELSE Prune(r.list, disconnected, k + 1)

\* broadcast from the list iterator's next step to the next await: the next
\* connection and the await of its send_json, or, at the end of the list,
\* the removals and the return
Continue(b, state, index) ==
    IF index < Len(manager.active_connections)
    THEN /\ broadcasts' = [broadcasts EXCEPT ![b] =
                [state EXCEPT !.pc = "sending", !.index = index + 1,
                              !.connection = manager.active_connections[index + 1]]]
         /\ UNCHANGED manager
    ELSE LET r == Prune(manager.active_connections, state.disconnected, 1)
         IN  /\ manager' = [manager EXCEPT !.active_connections = r.list]
             /\ broadcasts' = [broadcasts EXCEPT ![b] =
                    [state EXCEPT !.pc = IF r.raised THEN "raised" ELSE "returned",
                                  !.connection = "none"]]

\* broadcast(message) is called
broadcast(b) ==
    /\ program = "websocket"
    /\ broadcasts[b].pc = "idle"
    /\ Continue(b, [broadcasts[b] EXCEPT
                       !.audience = SeqToSet(manager.active_connections)], 0)
    /\ UNCHANGED websockets
    /\ WebsocketOnly

\* "await connection.send_json(message)" is over: the message is with the
\* client, or the call raised and the connection is noted as disconnected
Sent_json(b) ==
    /\ program = "websocket"
    /\ broadcasts[b].pc = "sending"
    /\ LET connection == broadcasts[b].connection
       IN  IF websockets[connection].open
           THEN /\ websockets' = [websockets EXCEPT ![connection].received = @ \cup {b}]
                /\ Continue(b, broadcasts[b], broadcasts[b].index)
           ELSE /\ UNCHANGED websockets
                /\ Continue(b, [broadcasts[b] EXCEPT
                                   !.disconnected = Append(@, connection)],
                            broadcasts[b].index)
    /\ WebsocketOnly

NextWebsocket ==
    \/ \E ws \in Sockets : Accept(ws)
    \/ \E ws \in Sockets : Connected(ws)
    \/ \E ws \in Sockets : Close(ws)
    \/ \E ws \in Sockets : Disconnect(ws)
    \/ \E b \in Broadcasts : broadcast(b)
    \/ \E b \in Broadcasts : Sent_json(b)

InitWebsocket ==
    /\ program = "websocket"
    /\ TrackerIdle /\ SystemIdle /\ DetectIdle /\ LogIdle /\ CallIdle
    /\ ServerIdle /\ CameraIdle /\ loop = None
    /\ manager = ConnectionManager
    /\ websockets = [ws \in Sockets |-> NewSocket]
    /\ broadcasts = [b \in Broadcasts |-> NoBroadcast]

SpecWebsocket == InitWebsocket /\ [][NextWebsocket]_vars

\* ------------------------------------------------------------------------
\* C39  Under any interleaving of ConnectionManager.connect, disconnect and
\* broadcast (with broadcast suspended at each send), every websocket is in
\* active_connections at most once, a removal never targets a connection
\* that is already absent (a disconnect following a pruning by broadcast,
\* or two broadcasts pruning the same connection, does not fail), and a
\* connection that stays open during a broadcast receives the message.
\* ------------------------------------------------------------------------
AtMostOnce ==
    \A i, j \in 1..Len(manager.active_connections) :
        manager.active_connections[i] = manager.active_connections[j] => i = j

NoFailedRemoval ==
    /\ \A ws \in Sockets : websockets[ws].pc # "raised"
    /\ \A b \in Broadcasts : broadcasts[b].pc # "raised"

\* the connections in the list when the broadcast was called that are still
\* open when it is over have all received its message
OpenReceived ==
    \A b \in Broadcasts :
        broadcasts[b].pc \in {"returned", "raised"} =>
            \A ws \in broadcasts[b].audience :
                websockets[ws].open => b \in websockets[ws].received

C39_ConsistentConnections ==
    program = "websocket" => AtMostOnce /\ NoFailedRemoval /\ OpenReceived

====
